---- MODULE Spec2Model ----
(***************************************************************************)
(* A model of the Playwright helper layer of the e-commerce test suite:    *)
(*   - the element-state conditions of src/src/utils/element-utils.ts      *)
(*     (isElementVisible, isElementHidden, isElementChecked,               *)
(*     isElementAttached), checked under Spec;                             *)
(*   - the navigation actions of src/src/utils/action-utils.ts             *)
(*     (clickAndNavigate, reloadPage, goBack), checked under NavSpec;      *)
(*   - the assertion layer of src/src/utils/action-utils.ts (hard and soft *)
(*     expectations, assertAllSoftAssertions), checked under TestSpec.     *)
(* Times are in milliseconds.                                              *)
(***************************************************************************)
EXTENDS Integers, Sequences, FiniteSets, TLC

VARIABLES
    \* ---- element-state conditions (element-utils.ts) ----
    fn,           \* the condition function being run
    options,      \* options.timeout as a set: {} when absent, {t} when given
    condAt,       \* the instant from which the sampled condition is true
    checkedAt,    \* the instant from which the element is checked
    throwAt,      \* the number of the element query that raises (0: none does)
    pc,           \* position of the running function
    now,          \* Date.now()
    startTime,    \* const startTime
    timeoutInMs,  \* const timeoutInMs
    queries,      \* element queries issued so far (isVisible/isHidden/isChecked/waitFor)
    samples,      \* samples of the polled predicate taken so far
    sleeps,       \* 100 ms sleeps completed so far
    latency,      \* time spent waiting for the answers of the samples so far
    overshoot,    \* time the sleeps took beyond the poll interval so far
    sawTrue,      \* a sample of the polled predicate was true
    threw,        \* an element query raised
    result,       \* what the caller gets: "none", "true", "false" or "thrown"
    \* ---- navigation actions (action-utils.ts) ----
    navOp,        \* "clickAndNavigate", "reloadPage" or "goBack"
    navWait,      \* options.loadState / options.waitUntil, "absent" when not given
    navPc,        \* "idle", "join", "loadState", "returned" or "thrown"
    prim,         \* the click / reload / goBack promise
    evWait,       \* the waitForEvent('framenavigated') promise
    listener,     \* a 'framenavigated' listener is registered
    navEvent,     \* the event of the navigation: "none", "inflight" or "delivered"
    lifecycle,    \* load state reached by the current document (see Level)
    missed,       \* the event was delivered before the wait for it began
    navErr,       \* the error the caller catches: "none" or the call that raised it
    firstRej,     \* the joined call that rejected first, "none" when none did
    clickOptions, \* options.timeout of clickAndNavigate as a set: {} when absent
    navClock,     \* time since the operation was called, up to its return or throw
    loadStart,    \* navClock when the wait for the load state began
    errorsBefore, \* testInfo.errors when the operation was called
    \* ---- assertion layer (action-utils.ts) and the test that uses it ----
    tPc,          \* the test function: "running" or "ended"
    errors,       \* testInfo.errors: "soft" or "hard" for each recorded failure
    status,       \* testInfo.status: "passed" or "failed"
    steps,        \* steps of the test function executed so far
    last,         \* the last step executed
    softFails,    \* failed expectations made with soft: true
    calls,        \* calls of assertAllSoftAssertions
    seen,         \* the length of testInfo.errors the last such call found
    throws,       \* errors thrown out of the test function
    \* ---- a worker running tests: page handle, locators, actions ----
    testNo,       \* the number of the test the worker runs (0 before the first)
    wPc,          \* "between", "beforeEach", "describeHook", "body"
    page,         \* the current-page handle of utils/page-utils (0 when unset)
    held,         \* a handle held in a local of the running test function
    btn,          \* the handle a page-object locator function returned last
    dom,          \* for every page, the actions performed on it
    resolutions,  \* string queries resolved so far
    acts,         \* actions performed on a page so far
    lastAct,      \* how the last dispatcher action ended: "none", "returned", "thrown", "cutOff"
    lastOn,       \* the page the last resolution or action used
    stray,        \* resolutions and actions that used a page of another test
    bodySteps,    \* steps the test functions of the run have executed
    made,         \* for every string query, the handle getLocator made for it last
    lastRes,      \* the call of getLocator the last step made, if it was a resolution
    \* ---- matching assertions (action-utils.ts) ----
    mFn,          \* the assertion helper being called
    expected,     \* the expectation: [kind |-> "string" or "array", items |-> strings]
    received,     \* the live values: the attribute value, the URL, the texts of the elements
    mPc,          \* "idle" or "done"
    mResult,      \* "none", "pass", "fail" or "syntaxError"
    \* ---- the reporter (custom-logger.ts) and the run it observes ----
    ci,           \* process.env.CI is set
    rState,       \* for every test: "pending", "running" or "done"
    attempt,      \* for every test: the retries it has had
    final,        \* for every test: the status of its last end ("none" before)
    log,          \* the calls of logger.info and logger.error, in order
    lastEvent,    \* the last callback of the reporter and its arguments
    lastLen,      \* the length of log before that callback
    rThrown,      \* callbacks that ended by throwing
    rErrors,      \* onError callbacks so far
    \* ---- locator-utils.ts: test ids, lists of locators, frames ----
    lTest,        \* the number of the test that is running
    doc,          \* the elements of the document, in document order, by tag
    frames,       \* the frame selectors that locate an iframe of the page
    testIdAttribute, \* the attribute the selectors engine of the process uses for test ids
    lastSet,      \* the attributeName the last call that set one passed ("none" before)
    lastSetTest,  \* the test in which that call was made
    heldLoc,      \* the handle getLocatorInFrame returned last
    lastCall,     \* the last call of a locator helper or action, and how it ended
    lCalls,       \* calls made so far
    \* ---- a test under the test timeout that makes one expectation ----
    tClock,       \* test time elapsed, in ms
    runPc,        \* "off", "running", "teardown" or "ended"
    expectPc,     \* "none", "pending", "passed", "failed" or "interrupted"
    expectStart,  \* test time at which the expectation was called
    expectSoft,   \* options.soft of the expectation
    condHeld,     \* the condition of the expectation has held
    pagePc,       \* "open" or "closed"
    runStatus,    \* testInfo.status
    runErrors,    \* testInfo.errors
    \* ---- the page object of the category selection ----
    pgFlow,       \* the flow that is run
    pgIx,         \* position in the program of the flow
    pgPc,         \* "off", "running", "returned" or "thrown"
    shown,        \* the buttons that are visible
    pgLog,        \* the expectations and clicks made so far, and how they ended
    labels,       \* the label.merCheckboxLabel elements of the page, in document order
    expectedCheckedTexts, \* the argument of checkCheckboxes
    checkResult,  \* "none", "pass" or "fail"
    pgChanges     \* changes of the page so far

pollVars == <<fn, options, condAt, checkedAt, throwAt, pc, now, startTime, timeoutInMs,
              queries, samples, sleeps, latency, overshoot, sawTrue, threw, result>>

navVars == <<navOp, navWait, navPc, prim, evWait, listener, navEvent, lifecycle, missed,
             navErr, firstRej, clickOptions, navClock, loadStart, errorsBefore>>

testVars == <<tPc, errors, status, steps, last, softFails, calls, seen, throws>>

workerVars == <<testNo, wPc, page, held, btn, dom, resolutions, acts, lastAct, lastOn, stray,
                bodySteps, made, lastRes>>

matchVars == <<mFn, expected, received, mPc, mResult>>

reporterVars == <<ci, rState, attempt, final, log, lastEvent, lastLen, rThrown, rErrors>>

locVars == <<lTest, doc, frames, testIdAttribute, lastSet, lastSetTest, heldLoc, lastCall,
             lCalls>>

runVars == <<tClock, runPc, expectPc, expectStart, expectSoft, condHeld, pagePc, runStatus,
             runErrors>>

pgVars == <<pgFlow, pgIx, pgPc, shown, pgLog, labels, expectedCheckedTexts, checkResult,
            pgChanges>>

vars == <<pollVars, navVars, testVars, workerVars, matchVars, reporterVars, locVars,
          runVars, pgVars>>

\* what the actions of one part leave alone
notPoll == <<navVars, testVars, workerVars, matchVars, reporterVars, locVars, runVars,
             pgVars>>

notNav == <<pollVars, testVars, workerVars, matchVars, reporterVars, locVars, runVars,
            pgVars>>

notTest == <<pollVars, navVars, workerVars, matchVars, reporterVars, locVars, runVars,
             pgVars>>

notWorker == <<pollVars, navVars, testVars, matchVars, reporterVars, locVars, runVars,
               pgVars>>

notMatch == <<pollVars, navVars, testVars, workerVars, reporterVars, locVars, runVars,
              pgVars>>

notReporter == <<pollVars, navVars, testVars, workerVars, matchVars, locVars, runVars,
                 pgVars>>

notLoc == <<pollVars, navVars, testVars, workerVars, matchVars, reporterVars, runVars,
            pgVars>>

notRun == <<pollVars, navVars, testVars, workerVars, matchVars, reporterVars, locVars,
            pgVars>>

notPg == <<pollVars, navVars, testVars, workerVars, matchVars, reporterVars, locVars,
           runVars>>

----------------------------------------------------------------------------
(* Bounds of the model *)

\* timeouts and instants are multiples of Tick, up to MaxTimeoutTicks * Tick
MaxTimeoutTicks == 7
\* a sample is answered after 0 .. MaxLatencyTicks ticks
MaxLatencyTicks == 1
\* setTimeout fires 0 .. MaxOvershootTicks ticks late
MaxOvershootTicks == 1
\* a test function runs at most MaxSteps expectations and assertAllSoftAssertions calls
MaxSteps == 5
\* the time of a navigation action is followed for at most MaxNavTicks * NavTick
MaxNavTicks == 9
\* a worker runs at most MaxTests tests, which execute at most MaxBodySteps steps in all
MaxTests == 2
MaxBodySteps == 3
\* an expected value given to an attribute or URL assertion has at most MaxPatternLen
\* characters and the live value at most MaxValueLen
MaxPatternLen == 3
MaxValueLen == 3
\* a text assertion finds at most MaxElements elements, of at most MaxTextLen
\* characters each, and is given at most MaxElements expectations of that length
MaxTextLen == 1
MaxElements == 2
\* the reporter observes at most MaxRunErrors errors outside the tests and at most
\* MaxSinkFailures failures of the logger
MaxRunErrors == 1
MaxSinkFailures == 1
\* a document has at most MaxNodes elements; a run has at most MaxLocTests tests, which
\* make at most MaxLocCalls calls of the locator helpers in all
MaxNodes == 3
MaxLocTests == 2
MaxLocCalls == 3
\* closing the page after the test timeout takes at most MaxTeardownTicks ticks
MaxTeardownTicks == 2
\* the page changes at most MaxPageChanges times during a flow; it has at most MaxLabels
\* checkbox labels, and checkCheckboxes is given at most MaxExpected texts
MaxPageChanges == 2
MaxLabels == 2
MaxExpected == 2

----------------------------------------------------------------------------
(* Program constants *)

\* setTimeout(resolve, 100)
PollInterval == 100

\* SMALL_TIMEOUT of utils/timeout-constants (the file is not in the source tree; the
\* spec orders it instant < small < standard): a stand-in value
SMALL_TIMEOUT == 500

\* INSTANT_TIMEOUT of utils/timeout-constants (instant < small): a stand-in value
INSTANT_TIMEOUT == 250

\* STANDARD_TIMEOUT of utils/timeout-constants (small < standard): a stand-in value
STANDARD_TIMEOUT == 3000

\* ACTION_TIMEOUT of utils/timeout-constants, the actionTimeout of the configuration
\* (standard < action): a stand-in value
ACTION_TIMEOUT == 4000

\* NAVIGATION_TIMEOUT of utils/timeout-constants, the navigationTimeout of the
\* configuration (action <= navigation): a stand-in value
NAVIGATION_TIMEOUT == 4000

\* export const LOADSTATE
LOADSTATE == "domcontentloaded"

\* retries: process.env.CI ? 2 : 0
RetriesOnCI == 2

Tick == PollInterval \div 2

Timeouts == {k * Tick : k \in 0..MaxTimeoutTicks}

\* a condition that never becomes true within the horizon of the model
Never == (MaxTimeoutTicks + 1) * Tick * (MaxLatencyTicks + MaxOvershootTicks + 2) + SMALL_TIMEOUT * 4

Instants == Timeouts \cup {Never}

Latencies == {k * Tick : k \in 0..MaxLatencyTicks}

Overshoots == {k * Tick : k \in 0..MaxOvershootTicks}

PollFns == {"isElementVisible", "isElementHidden"}

CondFns == PollFns \cup {"isElementChecked", "isElementAttached"}

\* the functions of element-utils.ts that take a timeout
TimedFns == CondFns \cup {"getLocatorCount"}

----------------------------------------------------------------------------
(* element-utils.ts *)

\* options?.timeout ?? dflt: a timeout of 0 taken as given
TimeoutOrDefaultNullish(opt, dflt) == IF opt = {} THEN dflt ELSE CHOOSE t \in opt : TRUE

\* options?.timeout || SMALL_TIMEOUT
TimeoutOrDefault(opt, dflt) == IF opt = {} \/ opt = {0} THEN dflt ELSE CHOOSE t \in opt : TRUE

\* a loop that still samples when the elapsed time equals the timeout
LoopCondInclusive(t, start, limit) == t - start <= limit

\* while (Date.now() - startTime < timeoutInMs)
LoopCond(t, start, limit) == t - start < limit

\* a sleep of twice the poll interval
SleepTwice(late) == PollInterval + PollInterval + late

\* await new Promise(resolve => setTimeout(resolve, 100)), firing late by `late`
SleepFor(late) == PollInterval + late

\* a catch block that rethrows to the caller
OnCatchRethrow == [pc |-> "done", result |-> "thrown"]

\* catch (error) { console.log(...) } return false: the try block encloses the whole
\* loop, so the first query that raises ends the polling
OnCatch == [pc |-> "done", result |-> "false"]

\* a function that returns true as soon as the element is seen visible
OnTrueSampleReturn(f) == [pc |-> "done", result |-> "true"]

\* if (await locator.isVisible(options)) return true (isElementChecked goes on to
\* isChecked instead of returning)
OnTrueSample(f) ==
    IF f = "isElementChecked" THEN [pc |-> "isChecked", result |-> "none"]
    ELSE [pc |-> "done", result |-> "true"]

\* getLocatorCount: const timeoutInMs = options?.timeout || INSTANT_TIMEOUT, handed to
\* isElementAttached(input, { timeout: timeoutInMs }), which takes
\* options?.timeout || SMALL_TIMEOUT as the other condition functions do
CallTimeout(f, opt) ==
    IF f = "getLocatorCount"
    THEN TimeoutOrDefault({TimeoutOrDefault(opt, INSTANT_TIMEOUT)}, SMALL_TIMEOUT)
    ELSE TimeoutOrDefault(opt, SMALL_TIMEOUT)

\* getLocatorCount: if (await isElementAttached(...)) return (await
\* getAllLocators(input)).length, else, and after an error, return 0
CountOf(attached) == IF attached = "true" THEN "count" ELSE "zero"

Elapsed == now - startTime

\* before the call: the arguments, the instants from which the element is in the state
\* asked for and checked, and the query that raises, if one does
PollStart ==
    /\ options \in {{}} \cup {{t} : t \in Timeouts}
    /\ condAt \in Instants
    /\ checkedAt \in (IF fn = "isElementChecked" THEN Instants ELSE {0})
    /\ throwAt \in 0..2
    /\ pc = "idle"
    /\ now = 0
    /\ startTime = 0
    /\ timeoutInMs = 0
    /\ queries = 0
    /\ samples = 0
    /\ sleeps = 0
    /\ latency = 0
    /\ overshoot = 0
    /\ sawTrue = FALSE
    /\ threw = FALSE
    /\ result = "none"

PollInit == fn \in CondFns /\ PollStart

\* a condition function or getLocatorCount is about to be called
TimedInit == fn \in TimedFns /\ PollStart

\* no condition function is run
PollIdle ==
    /\ fn = "isElementVisible"
    /\ options = {}
    /\ condAt = 0
    /\ checkedAt = 0
    /\ throwAt = 0
    /\ pc = "off"
    /\ now = 0
    /\ startTime = 0
    /\ timeoutInMs = 0
    /\ queries = 0
    /\ samples = 0
    /\ sleeps = 0
    /\ latency = 0
    /\ overshoot = 0
    /\ sawTrue = FALSE
    /\ threw = FALSE
    /\ result = "none"

\* the function is called: getLocator, timeoutInMs, startTime
Call ==
    /\ UNCHANGED notPoll
    /\ pc = "idle"
    /\ timeoutInMs' = CallTimeout(fn, options)
    /\ startTime' = now
    /\ pc' = IF fn \in {"isElementAttached", "getLocatorCount"} THEN "waitFor" ELSE "loop"
    /\ UNCHANGED <<fn, options, condAt, checkedAt, throwAt, now, queries, samples, sleeps,
                   latency, overshoot, sawTrue, threw, result>>

\* one pass of the loop body up to the sleep: the loop condition holds, the predicate
\* is sampled and answered after d ms
Sample ==
    /\ UNCHANGED notPoll
    /\ pc = "loop"
    /\ LoopCond(now, startTime, timeoutInMs)
    /\ \E d \in Latencies :
        LET at == now + d
            raises == throwAt = queries + 1
            holds == at >= condAt
            next == IF raises THEN OnCatch
                    ELSE IF holds THEN OnTrueSample(fn)
                    ELSE [pc |-> "sleep", result |-> "none"]
        IN /\ now' = at
           /\ latency' = latency + d
           /\ queries' = queries + 1
           /\ samples' = samples + 1
           /\ threw' = raises
           /\ sawTrue' = (~raises /\ holds)
           /\ pc' = next.pc
           /\ result' = next.result
    /\ UNCHANGED <<fn, options, condAt, checkedAt, throwAt, startTime, timeoutInMs, sleeps,
                   overshoot>>

\* the 100 ms sleep between two samples
Sleep ==
    /\ UNCHANGED notPoll
    /\ pc = "sleep"
    /\ \E j \in Overshoots :
        /\ now' = now + SleepFor(j)
        /\ overshoot' = overshoot + j
    /\ sleeps' = sleeps + 1
    /\ pc' = "loop"
    /\ UNCHANGED <<fn, options, condAt, checkedAt, throwAt, startTime, timeoutInMs, queries,
                   samples, latency, sawTrue, threw, result>>

\* the loop condition fails: return false
LoopExit ==
    /\ UNCHANGED notPoll
    /\ pc = "loop"
    /\ ~LoopCond(now, startTime, timeoutInMs)
    /\ pc' = "done"
    /\ result' = "false"
    /\ UNCHANGED <<fn, options, condAt, checkedAt, throwAt, now, startTime, timeoutInMs,
                   queries, samples, sleeps, latency, overshoot, sawTrue, threw>>

\* isElementChecked after isElementVisible returned true:
\* return await getLocator(input).isChecked(options), inside try/catch
IsChecked ==
    /\ UNCHANGED notPoll
    /\ pc = "isChecked"
    /\ \E d \in Latencies :
        LET at == now + d
            raises == throwAt = queries + 1
        IN /\ now' = at
           /\ latency' = latency + d
           /\ queries' = queries + 1
           /\ threw' = raises
           /\ result' = IF raises THEN OnCatch.result
                        ELSE IF at >= checkedAt THEN "true" ELSE "false"
    /\ pc' = "done"
    /\ UNCHANGED <<fn, options, condAt, checkedAt, throwAt, startTime, timeoutInMs, samples,
                   sleeps, overshoot, sawTrue>>

\* isElementAttached: await locator.waitFor({ state: 'attached', timeout }) resolves when
\* the element is attached within the timeout and raises otherwise; both in try/catch;
\* getLocatorCount counts the elements when isElementAttached returned true
WaitForAttached ==
    /\ UNCHANGED notPoll
    /\ pc = "waitFor"
    /\ LET raises == throwAt = queries + 1
           intime == condAt <= startTime + timeoutInMs
       IN /\ queries' = queries + 1
          /\ threw' = (raises \/ ~intime)
          /\ sawTrue' = (~raises /\ intime)
          /\ now' = IF raises THEN now
                     ELSE IF intime THEN (IF condAt > now THEN condAt ELSE now)
                     ELSE startTime + timeoutInMs
          /\ result' = LET attached == IF raises \/ ~intime THEN OnCatch.result ELSE "true"
                        IN IF fn = "getLocatorCount" THEN CountOf(attached) ELSE attached
    /\ pc' = "done"
    /\ UNCHANGED <<fn, options, condAt, checkedAt, throwAt, startTime, timeoutInMs, samples,
                   sleeps, latency, overshoot>>

----------------------------------------------------------------------------
(* action-utils.ts: clickAndNavigate, reloadPage, goBack *)

NavOps == {"clickAndNavigate", "reloadPage", "goBack"}

LoadStates == {"domcontentloaded", "load", "networkidle"}

Settled == {"fulfilled", "rejected"}

\* the load states in the order in which a document reaches them
Level(s) ==
    CASE s = "commit" -> 0
      [] s = "domcontentloaded" -> 1
      [] s = "load" -> 2
      [] s = "networkidle" -> 3

MaxLevel == Level("networkidle")

\* the promise of the primitive: click(input, options), getPage().reload(options),
\* getPage().goBack(options)
PrimName ==
    CASE navOp = "clickAndNavigate" -> "click"
      [] navOp = "reloadPage" -> "reload"
      [] navOp = "goBack" -> "goBack"

\* a wait that takes every waitUntil as it is given
WaitForPageLoadStateAsGiven(w) == IF w # "absent" THEN w ELSE LOADSTATE

\* waitForPageLoadState: let waitUntil = LOADSTATE;
\* if (options?.waitUntil && options.waitUntil !== 'commit') waitUntil = options.waitUntil
WaitForPageLoadStateTarget(w) == IF w # "absent" /\ w # "commit" THEN w ELSE LOADSTATE

\* clickAndNavigate: options?.loadState || LOADSTATE
ClickLoadState(w) == IF w = "absent" THEN LOADSTATE ELSE w

\* the load state the operation waits for after the join
LoadStateTarget ==
    IF navOp = "clickAndNavigate" THEN ClickLoadState(navWait)
    ELSE WaitForPageLoadStateTarget(navWait)

\* the primitive awaited before the wait for the event is begun
SequentialStart == [prim |-> "pending", evWait |-> "none", listener |-> FALSE]

\* [click(input, options), getPage().waitForEvent('framenavigated', ...)]: both calls of
\* the array literal are made in the turn of the caller, so the listener is registered
\* in the turn in which the primitive is issued, before the event loop can deliver
\* anything
JoinStart == [prim |-> "pending", evWait |-> "pending", listener |-> TRUE]

\* a join that settles as soon as one of the two promises has
JoinRace(p, e) ==
    IF p = "rejected" \/ e = "rejected" THEN "rejected"
    ELSE IF p = "fulfilled" \/ e = "fulfilled" THEN "fulfilled"
    ELSE "pending"

\* await Promise.all([p, e]): rejected with the first rejection, fulfilled when both
\* are fulfilled
JoinAll(p, e) ==
    IF p = "rejected" \/ e = "rejected" THEN "rejected"
    ELSE IF p = "fulfilled" /\ e = "fulfilled" THEN "fulfilled"
    ELSE "pending"

\* an error rethrown without its origin
ErrorOpaque(origin) == "error"

\* the awaits are not wrapped: the caller catches the error of the call that raised it
ErrorOf(origin) == origin

NavTick == STANDARD_TIMEOUT \div 3

ClickTimeouts == {{}} \cup {{k * NavTick} : k \in 0..2}

\* a deadline that is never reached: Playwright takes timeout 0 as "no timeout"
NoTimeout == (MaxNavTicks + 1) * NavTick

\* a wait for the event that ignores the timeout of the options
EventBudgetDefault(op, opt) ==
    IF op = "clickAndNavigate" THEN STANDARD_TIMEOUT ELSE ACTION_TIMEOUT

\* clickAndNavigate: const timeout = options?.timeout || STANDARD_TIMEOUT, given to
\* waitForEvent('framenavigated', { timeout: timeout }); reloadPage and goBack give
\* waitForEvent no timeout and it takes the default timeout of the page
EventBudget(op, opt) ==
    IF op = "clickAndNavigate" THEN TimeoutOrDefault(opt, STANDARD_TIMEOUT) ELSE ACTION_TIMEOUT

\* clickAndNavigate gives waitForLoadState the same const timeout; waitForPageLoadState
\* gives it none and it takes the default navigation timeout of the page
LoadBudget(op, opt) ==
    IF op = "clickAndNavigate" THEN TimeoutOrDefault(opt, STANDARD_TIMEOUT)
    ELSE NAVIGATION_TIMEOUT

\* click(input, options) hands the options on as they are: locator.click takes the
\* default action timeout when options.timeout is absent and no timeout when it is 0;
\* reload and goBack take the default navigation timeout
PrimBudget(op, opt) ==
    IF op # "clickAndNavigate" THEN NAVIGATION_TIMEOUT
    ELSE IF opt = {} THEN ACTION_TIMEOUT
    ELSE IF opt = {0} THEN NoTimeout
    ELSE CHOOSE t \in opt : TRUE

EvDeadline == EventBudget(navOp, clickOptions)

PrimDeadline == PrimBudget(navOp, clickOptions)

\* a wait for the load state that shares the budget of the join
LoadDeadlineFromCall == LoadBudget(navOp, clickOptions)

LoadDeadline == loadStart + LoadBudget(navOp, clickOptions)

\* the promise `origin` has settled, leaving the two promises as p and e
Joined(p, e, origin, rejected) ==
    LET j == JoinAll(p, e)
    IN /\ navPc' = IF navPc # "join" THEN navPc
                   ELSE IF j = "rejected" THEN "thrown"
                   ELSE IF j = "fulfilled" THEN "loadState"
                   ELSE "join"
       /\ navErr' = IF navPc = "join" /\ j = "rejected" THEN ErrorOf(origin) ELSE navErr
       /\ firstRej' = IF firstRej = "none" /\ rejected THEN origin ELSE firstRej
       /\ loadStart' = IF navPc = "join" /\ j = "fulfilled" THEN navClock ELSE loadStart

NavInit ==
    /\ navOp \in NavOps
    /\ navWait \in {"absent"} \cup LoadStates \cup (IF navOp = "clickAndNavigate" THEN {} ELSE {"commit"})
    /\ navPc = "idle"
    /\ prim = "none"
    /\ evWait = "none"
    /\ listener = FALSE
    /\ navEvent = "none"
    /\ lifecycle \in Level(LOADSTATE)..MaxLevel
    /\ missed = FALSE
    /\ navErr = "none"
    /\ firstRej = "none"
    /\ clickOptions \in (IF navOp = "clickAndNavigate" THEN ClickTimeouts ELSE {{}})
    /\ navClock = 0
    /\ loadStart = 0
    /\ errorsBefore = <<>>

\* no navigation action is run
NavIdle ==
    /\ navOp = "reloadPage"
    /\ navWait = "absent"
    /\ navPc = "off"
    /\ prim = "none"
    /\ evWait = "none"
    /\ listener = FALSE
    /\ navEvent = "none"
    /\ lifecycle = MaxLevel
    /\ missed = FALSE
    /\ navErr = "none"
    /\ firstRej = "none"
    /\ clickOptions = {}
    /\ navClock = 0
    /\ loadStart = 0
    /\ errorsBefore = <<>>

\* the operation is called and runs up to await Promise.all([...])
NavCall ==
    /\ UNCHANGED notNav
    /\ navPc = "idle"
    /\ prim' = JoinStart.prim
    /\ evWait' = JoinStart.evWait
    /\ listener' = JoinStart.listener
    /\ navPc' = "join"
    /\ errorsBefore' = errors
    /\ UNCHANGED <<navOp, navWait, navEvent, lifecycle, missed, navErr, firstRej, clickOptions,
                   navClock, loadStart>>

\* time passes while the operation waits, and not beyond the deadline of a wait that is
\* still pending
TimePasses ==
    /\ UNCHANGED notNav
    /\ navPc \in {"join", "loadState"}
    /\ navClock < MaxNavTicks * NavTick
    /\ navPc = "join" =>
        /\ (prim = "pending" => navClock < PrimDeadline)
        /\ (evWait = "pending" => navClock < EvDeadline)
    /\ navPc = "loadState" => navClock < LoadDeadline
    /\ navClock' = navClock + NavTick
    /\ UNCHANGED <<navOp, navWait, navPc, prim, evWait, listener, navEvent, lifecycle, missed,
                   navErr, firstRej, clickOptions, loadStart, errorsBefore>>

\* the browser starts the navigation the primitive caused: a new document is committed
\* and 'framenavigated' is on its way to the test process
Navigate ==
    /\ UNCHANGED notNav
    /\ prim \in {"pending", "fulfilled"}
    /\ navEvent = "none"
    /\ navEvent' = "inflight"
    /\ lifecycle' = Level("commit")
    /\ UNCHANGED <<navOp, navWait, navPc, prim, evWait, listener, missed, navErr, firstRej,
                   clickOptions, navClock, loadStart, errorsBefore>>

\* the new document reaches its next load state
Lifecycle ==
    /\ UNCHANGED notNav
    /\ navEvent # "none"
    /\ lifecycle < MaxLevel
    /\ lifecycle' = lifecycle + 1
    /\ UNCHANGED <<navOp, navWait, navPc, prim, evWait, listener, navEvent, missed, navErr,
                   firstRej, clickOptions, navClock, loadStart, errorsBefore>>

\* the event loop delivers 'framenavigated' to the test process
Deliver ==
    /\ UNCHANGED notNav
    /\ navEvent = "inflight"
    /\ navEvent' = "delivered"
    /\ IF listener
       THEN /\ evWait' = "fulfilled"
            /\ listener' = FALSE
            /\ missed' = missed
            /\ Joined(prim, "fulfilled", "waitForEvent", FALSE)
       ELSE /\ missed' = (missed \/ evWait = "none")
            /\ UNCHANGED <<evWait, listener, navPc, navErr, firstRej, loadStart>>
    /\ UNCHANGED <<navOp, navWait, prim, lifecycle, clickOptions, navClock, errorsBefore>>

\* reload and goBack resolve once the navigation has reached the load state of
\* options.waitUntil ('load' when absent); goBack also resolves, with null, when there
\* is no history entry to go to; a click resolves when the click has been performed
PrimMayFulfil ==
    \/ navOp = "clickAndNavigate"
    \/ navOp = "goBack" /\ navEvent = "none"
    \/ /\ navEvent = "delivered"
       /\ lifecycle >= Level(IF navWait = "absent" THEN "load" ELSE navWait)

PrimFulfils ==
    /\ UNCHANGED notNav
    /\ prim = "pending"
    /\ PrimMayFulfil
    /\ prim' = "fulfilled"
    /\ Joined("fulfilled", evWait, PrimName, FALSE)
    /\ UNCHANGED <<navOp, navWait, evWait, listener, navEvent, lifecycle, missed, clickOptions,
                   navClock, errorsBefore>>

\* the primitive fails: its timeout expires or the action is rejected
PrimRejects ==
    /\ UNCHANGED notNav
    /\ prim = "pending"
    /\ prim' = "rejected"
    /\ Joined("rejected", evWait, PrimName, TRUE)
    /\ UNCHANGED <<navOp, navWait, evWait, listener, navEvent, lifecycle, missed, clickOptions,
                   navClock, errorsBefore>>

\* the timeout of waitForEvent('framenavigated') expires (at any later time once the
\* operation has thrown and the clock of the call has stopped)
EventTimeout ==
    /\ UNCHANGED notNav
    /\ evWait = "pending"
    /\ navPc = "join" => navClock >= EvDeadline
    /\ evWait' = "rejected"
    /\ listener' = FALSE
    /\ Joined(prim, "rejected", "waitForEvent", TRUE)
    /\ UNCHANGED <<navOp, navWait, prim, navEvent, lifecycle, missed, clickOptions, navClock,
                   errorsBefore>>

\* await waitForPageLoadState(options) / await getPage().waitForLoadState(...) resolves
LoadStateReached ==
    /\ UNCHANGED notNav
    /\ navPc = "loadState"
    /\ lifecycle >= Level(LoadStateTarget)
    /\ navPc' = "returned"
    /\ UNCHANGED <<navOp, navWait, prim, evWait, listener, navEvent, lifecycle, missed, navErr,
                   firstRej, clickOptions, navClock, loadStart, errorsBefore>>

\* the timeout of the wait for the load state expires
LoadStateTimeout ==
    /\ UNCHANGED notNav
    /\ navPc = "loadState"
    /\ lifecycle < Level(LoadStateTarget)
    /\ navClock >= LoadDeadline
    /\ navPc' = "thrown"
    /\ navErr' = ErrorOf("waitForLoadState")
    /\ UNCHANGED <<navOp, navWait, prim, evWait, listener, navEvent, lifecycle, missed,
                   firstRej, clickOptions, navClock, loadStart, errorsBefore>>

----------------------------------------------------------------------------
(* action-utils.ts: the assertion layer, in a test run by the Playwright runner *)

SoftOptions == {"unset", "false", "true"}

\* every expectation made with a soft option counts as soft
IsSoftAlways(soft) == soft \in SoftOptions

\* expect.configure({ soft: options?.soft }): soft only when options.soft is true
IsSoft(soft) == soft = "true"

\* a check that tolerates one recorded error
AllButOneSoftPass(errs) == Len(errs) <= 1

\* expect(testInfo.errors).toHaveLength(0)
AllSoftAssertionsPass(errs) == Len(errs) = 0

\* an error thrown out of the test function: the runner records it and the test ends
Thrown ==
    /\ errors' = Append(errors, "hard")
    /\ status' = "failed"
    /\ throws' = throws + 1
    /\ tPc' = "ended"

TestInit ==
    /\ tPc = "running"
    /\ errors = <<>>
    /\ status = "passed"
    /\ steps = 0
    /\ last = "none"
    /\ softFails = 0
    /\ calls = 0
    /\ seen = 0
    /\ throws = 0

\* no test is run
TestIdle ==
    /\ tPc = "off"
    /\ errors = <<>>
    /\ status = "passed"
    /\ steps = 0
    /\ last = "none"
    /\ softFails = 0
    /\ calls = 0
    /\ seen = 0
    /\ throws = 0

\* await assert(locator, options).toBeVisible(options) and the other expect... helpers:
\* a passing expectation goes on; a failing soft one is recorded in testInfo.errors,
\* marks the test failed and goes on; a failing hard one throws
Expectation ==
    /\ UNCHANGED notTest
    /\ tPc = "running"
    /\ steps < MaxSteps
    /\ steps' = steps + 1
    /\ \E soft \in SoftOptions, ok \in BOOLEAN :
        IF ok
        THEN /\ last' = "pass"
             /\ UNCHANGED <<tPc, errors, status, softFails, throws>>
        ELSE /\ last' = (IF soft = "true" THEN "softFail" ELSE "hardFail")
             /\ softFails' = (IF soft = "true" THEN softFails + 1 ELSE softFails)
             /\ IF IsSoft(soft)
                THEN /\ errors' = Append(errors, "soft")
                     /\ status' = "failed"
                     /\ UNCHANGED <<tPc, throws>>
                ELSE Thrown
    /\ UNCHANGED <<calls, seen>>

\* assertAllSoftAssertions(testInfo): a hard expectation on testInfo.errors
AssertAllSoftAssertions ==
    /\ UNCHANGED notTest
    /\ tPc = "running"
    /\ steps < MaxSteps
    /\ steps' = steps + 1
    /\ calls' = calls + 1
    /\ seen' = Len(errors)
    /\ IF AllSoftAssertionsPass(errors)
       THEN /\ last' = "assertAllPass"
            /\ UNCHANGED <<tPc, errors, status, throws>>
       ELSE /\ last' = "assertAllFail"
            /\ Thrown
    /\ UNCHANGED softFails

\* the test function returns
TestEnd ==
    /\ UNCHANGED notTest
    /\ tPc = "running"
    /\ tPc' = "ended"
    /\ last' = "end"
    /\ UNCHANGED <<errors, status, steps, softFails, calls, seen, throws>>

TestNext ==
    \/ Expectation
    \/ AssertAllSoftAssertions
    \/ TestEnd

----------------------------------------------------------------------------
(* a test that calls a navigation action *)

\* soft failures recorded before the call
MaxSoftBefore == 2

\* the test is running and k soft expectations have failed so far
TestCalling ==
    /\ tPc = "running"
    /\ \E k \in 0..MaxSoftBefore :
        /\ errors = [i \in 1..k |-> "soft"]
        /\ status = (IF k = 0 THEN "passed" ELSE "failed")
        /\ steps = k
        /\ last = (IF k = 0 THEN "none" ELSE "softFail")
        /\ softFails = k
    /\ calls = 0
    /\ seen = 0
    /\ throws = 0

\* the test function does not catch the error of the navigation action: it leaves the
\* test function and the runner records it
NavErrorEscapes ==
    /\ UNCHANGED <<pollVars, navVars, workerVars, matchVars, reporterVars, locVars,
                   runVars, pgVars>>
    /\ navPc = "thrown"
    /\ tPc = "running"
    /\ Thrown
    /\ UNCHANGED <<steps, last, softFails, calls, seen>>

NavNext ==
    \/ NavCall
    \/ TimePasses
    \/ Navigate
    \/ Lifecycle
    \/ Deliver
    \/ PrimFulfils
    \/ PrimRejects
    \/ EventTimeout
    \/ LoadStateReached
    \/ LoadStateTimeout
    \/ NavErrorEscapes

----------------------------------------------------------------------------
(* locator-utils.ts, the actions of action-utils.ts and the page objects, in a worker
   that runs one test after the other; the page of test n is page n *)

Queries == {"#a", "#b"}

ActionOps == {"click", "fill", "clear", "check", "uncheck",
              "selectByValue", "selectByText", "selectByIndex"}

NoHandle == [query |-> "none", page |-> 0]

\* a Locator: the query and the page it was made on; it queries that page when used
Handle(q, pg) == [query |-> q, page |-> pg]

\* an input of type string
StringInput(q) == [str |-> q]

\* typeof input === 'string'
IsString(input) == "str" \in DOMAIN input

\* a resolution that keeps the handle it made for a string and returns it again
GetLocatorCached(input, pg) ==
    IF ~IsString(input) THEN input
    ELSE IF made[input.str] # NoHandle THEN made[input.str]
    ELSE Handle(input.str, pg)

\* getLocator: typeof input === 'string' ? getPage().locator(input, options) : input,
\* pg being getPage()
GetLocator(input, pg) ==
    IF IsString(input) THEN Handle(input.str, pg) ELSE input

\* the handles made for the string queries after getLocator(input) returned loc
Made(input, loc) == IF IsString(input) THEN [made EXCEPT ![input.str] = loc] ELSE made

NoRes == [kind |-> "none", prev |-> NoHandle, result |-> NoHandle]

\* a locator constant, evaluated once when it is first used
LocatorConstant(lastMade, pg) ==
    IF lastMade # NoHandle THEN lastMade ELSE Handle("btn", pg)

\* const btn_selectByCategory = () => getLocatorByTestId(...).locator(...): a function,
\* evaluated at every use
LocatorFunction(lastMade, pg) == Handle("btn", pg)

\* baseTest.beforeEach(({ page }) => { setPage(page); })
BeforeEachPage(current, fixture) == fixture

\* the instant from which the element is actionable
NotActionable == NoTimeout + NavTick

ActionableAts == {0, 2 * NavTick, ACTION_TIMEOUT + NavTick, NotActionable}

\* await locator.click(options) and the like: the options go on as they are, so the
\* action takes the default action timeout when options.timeout is absent and has no
\* timeout when it is 0
ActionBudget(opt) ==
    IF opt = {} THEN ACTION_TIMEOUT
    ELSE IF opt = {0} THEN NoTimeout
    ELSE CHOOSE t \in opt : TRUE

\* an action wrapped in a try/catch that returns normally
ActionOutcomeSwallowed(at, budget) ==
    IF at <= budget THEN "returned"
    ELSE IF budget = NoTimeout THEN "cutOff"
    ELSE "returned"

\* const locator = getLocator(input); await locator.click(options): no try/catch, the
\* rejection of the action is the rejection of the function; an action without timeout
\* on an element that never gets actionable is cut off by the timeout of the test
ActionOutcome(at, budget) ==
    IF at <= budget THEN "returned"
    ELSE IF budget = NoTimeout THEN "cutOff"
    ELSE "thrown"

NoAct == [op |-> "none", str |-> FALSE, on |-> 0, intime |-> FALSE, timed |-> FALSE,
          outcome |-> "none"]

\* the step used page pg
Uses(pg) ==
    /\ lastOn' = pg
    /\ stray' = stray + (IF pg # testNo THEN 1 ELSE 0)

WorkerInit ==
    /\ testNo = 0
    /\ wPc = "between"
    /\ page = 0
    /\ held = NoHandle
    /\ btn = NoHandle
    /\ dom = [p \in 0..MaxTests |-> 0]
    /\ resolutions = 0
    /\ acts = 0
    /\ lastAct = NoAct
    /\ lastOn = 0
    /\ stray = 0
    /\ bodySteps = 0
    /\ made = [q \in Queries |-> NoHandle]
    /\ lastRes = NoRes

\* no worker runs
WorkerIdle ==
    /\ testNo = 0
    /\ wPc = "off"
    /\ page = 0
    /\ held = NoHandle
    /\ btn = NoHandle
    /\ dom = [p \in 0..MaxTests |-> 0]
    /\ resolutions = 0
    /\ acts = 0
    /\ lastAct = NoAct
    /\ lastOn = 0
    /\ stray = 0
    /\ bodySteps = 0
    /\ made = [q \in Queries |-> NoHandle]
    /\ lastRes = NoRes

\* the runner begins the next test and makes its page fixture
BeginTest ==
    /\ UNCHANGED notWorker
    /\ wPc = "between"
    /\ testNo < MaxTests
    /\ testNo' = testNo + 1
    /\ wPc' = "beforeEach"
    /\ held' = NoHandle
    /\ lastAct' = NoAct
    /\ lastRes' = NoRes
    /\ UNCHANGED <<page, btn, dom, resolutions, acts, lastOn, stray, made, bodySteps>>

\* the hook of page-setup.ts
BeforeEach ==
    /\ UNCHANGED notWorker
    /\ wPc = "beforeEach"
    /\ page' = BeforeEachPage(page, testNo)
    /\ wPc' = "describeHook"
    /\ UNCHANGED <<testNo, held, btn, dom, resolutions, acts, lastAct, lastOn, stray,
                   bodySteps, made, lastRes>>

\* test.beforeEach(async () => { await HomePage.navigateToMercariHomePage(); }):
\* gotoURL calls getPage().goto
DescribeHook ==
    /\ UNCHANGED notWorker
    /\ wPc = "describeHook"
    /\ Uses(page)
    /\ wPc' = "body"
    /\ UNCHANGED <<testNo, page, held, btn, dom, resolutions, acts, lastAct, bodySteps, made,
                   lastRes>>

\* what a step of the test function can pass as input: a string or the handle it holds
Inputs == {StringInput(q) : q \in Queries} \cup (IF held # NoHandle THEN {held} ELSE {})

\* const locator = getLocator(input)
Resolve ==
    /\ UNCHANGED notWorker
    /\ wPc = "body"
    /\ bodySteps < MaxBodySteps
    /\ bodySteps' = bodySteps + 1
    /\ \E input \in Inputs :
        LET locator == GetLocator(input, page)
        IN /\ held' = locator
           /\ made' = Made(input, locator)
           /\ lastRes' = [kind |-> IF IsString(input) THEN "string" ELSE "locator",
                          prev |-> IF IsString(input) THEN made[input.str] ELSE input,
                          result |-> locator]
           /\ resolutions' = resolutions + (IF IsString(input) THEN 1 ELSE 0)
           /\ Uses(locator.page)
    /\ lastAct' = NoAct
    /\ UNCHANGED <<testNo, wPc, page, btn, dom, acts>>

\* a page object evaluates one of its locators: btn_selectByCategory()
CallLocatorFunction ==
    /\ UNCHANGED notWorker
    /\ wPc = "body"
    /\ bodySteps < MaxBodySteps
    /\ bodySteps' = bodySteps + 1
    /\ btn' = LocatorFunction(btn, page)
    /\ held' = btn'
    /\ resolutions' = resolutions + 1
    /\ Uses(btn'.page)
    /\ lastAct' = NoAct
    /\ lastRes' = NoRes
    /\ UNCHANGED <<testNo, wPc, page, dom, acts, made>>

\* click, fill, clear, check, uncheck, selectByValue, selectByText, selectByIndex:
\* const locator = getLocator(input); await locator.<action>(..., options)
Act ==
    /\ UNCHANGED notWorker
    /\ wPc = "body"
    /\ bodySteps < MaxBodySteps
    /\ bodySteps' = bodySteps + 1
    /\ \E op \in ActionOps, input \in Inputs, opt \in ClickTimeouts, at \in ActionableAts :
        LET locator == GetLocator(input, page)
            budget == ActionBudget(opt)
            outcome == ActionOutcome(at, budget)
        IN /\ lastAct' = [op |-> op, str |-> IsString(input), on |-> locator.page,
                          intime |-> at <= budget, timed |-> budget # NoTimeout,
                          outcome |-> outcome]
           /\ resolutions' = resolutions + (IF IsString(input) THEN 1 ELSE 0)
           /\ made' = Made(input, locator)
           /\ dom' = IF at <= budget THEN [dom EXCEPT ![locator.page] = @ + 1] ELSE dom
           /\ acts' = acts + (IF at <= budget THEN 1 ELSE 0)
           /\ Uses(locator.page)
           /\ wPc' = IF outcome = "returned" THEN "body" ELSE "between"
    /\ lastRes' = NoRes
    /\ UNCHANGED <<testNo, page, held, btn>>

\* the test function returns; the page-utils handle is left as it is
EndTest ==
    /\ UNCHANGED notWorker
    /\ wPc = "body"
    /\ wPc' = "between"
    /\ UNCHANGED <<testNo, page, held, btn, dom, resolutions, acts, lastAct, lastOn, stray,
                   bodySteps, made, lastRes>>

WorkerNext ==
    \/ BeginTest
    \/ BeforeEach
    \/ DescribeHook
    \/ Resolve
    \/ CallLocatorFunction
    \/ Act
    \/ EndTest

----------------------------------------------------------------------------
(* action-utils.ts: the assertions that match a live value against an expectation.
   A string is a sequence of characters. *)

\* the characters of the expected values: two letters and characters that have a
\* meaning in a regular expression
PatternChars == {"a", "b", ".", "+", "?", "("}

\* the characters of the live values
ValueChars == {"a", "b", ".", "+"}

RECURSIVE StringsOver(_, _)
\* the strings over the characters cs of length at most n
StringsOver(cs, n) ==
    IF n = 0 THEN {<<>>}
    ELSE LET shorter == StringsOver(cs, n - 1)
         IN shorter \cup {Append(w, c) : w \in shorter, c \in cs}

\* String.prototype.includes
Contains(text, sub) ==
    \E i \in 0..(Len(text) - Len(sub)) : SubSeq(text, i + 1, i + Len(sub)) = sub

Atoms == {"a", "b", "."}

Quantifiers == {"+", "?"}

RECURSIVE ParseFrom(_, _)
\* new RegExp(p), from character i on: a sequence of terms, each an atom (a letter or
\* the wildcard '.') with an optional quantifier ('+' or '?') that an additional '?'
\* makes lazy. A quantifier with nothing to repeat and a '(' that nothing closes are
\* SyntaxErrors.
ParseFrom(p, i) ==
    IF i > Len(p) THEN [ok |-> TRUE, terms |-> <<>>]
    ELSE IF p[i] \notin Atoms THEN [ok |-> FALSE, terms |-> <<>>]
    ELSE LET quantified == i + 1 <= Len(p) /\ p[i + 1] \in Quantifiers
             lazy == quantified /\ i + 2 <= Len(p) /\ p[i + 2] = "?"
             after == i + 1 + (IF quantified THEN 1 ELSE 0) + (IF lazy THEN 1 ELSE 0)
             rest == ParseFrom(p, after)
         IN [ok |-> rest.ok,
             terms |-> <<[atom |-> p[i], quant |-> IF quantified THEN p[i + 1] ELSE "1"]>>
                         \o rest.terms]

RECURSIVE MatchHere(_, _, _, _)
\* the terms from the k-th on match a part of the text that begins at position j
MatchHere(terms, k, text, j) ==
    IF k > Len(terms) THEN TRUE
    ELSE LET t == terms[k]
             one == j <= Len(text) /\ (t.atom = "." \/ t.atom = text[j])
         IN CASE t.quant = "1" -> one /\ MatchHere(terms, k + 1, text, j + 1)
              [] t.quant = "?" ->
                    \/ MatchHere(terms, k + 1, text, j)
                    \/ one /\ MatchHere(terms, k + 1, text, j + 1)
              [] t.quant = "+" ->
                    one /\ (\/ MatchHere(terms, k + 1, text, j + 1)
                            \/ MatchHere(terms, k, text, j + 1))

\* RegExp.prototype.test without flags: the pattern matches somewhere in the text
RegExpTest(terms, text) == \E j \in 1..(Len(text) + 1) : MatchHere(terms, 1, text, j)

\* toHaveAttribute(attribute, new RegExp(value), options) and
\* toHaveURL(new RegExp(url), options): the string is compiled as a pattern, which
\* throws a SyntaxError when it is not one, and the live value is searched for a match
MatchNewRegExp(value, live) ==
    LET re == ParseFrom(value, 1)
    IN IF ~re.ok THEN "syntaxError"
       ELSE IF RegExpTest(re.terms, live) THEN "pass"
       ELSE "fail"

\* the letters of the texts of the elements
TextChars == {"a", "b"}

RECURSIVE ListsOver(_, _)
\* the sequences of at most n members of S
ListsOver(S, n) ==
    IF n = 0 THEN {<<>>}
    ELSE LET shorter == ListsOver(S, n - 1)
         IN shorter \cup {Append(l, x) : l \in shorter, x \in S}

\* an array expectation that passes when one of its items is contained in the text
\* of the first element
ContainAnyOf(items, texts, m, r) ==
    /\ texts # <<>>
    /\ \E i \in 1..Len(items) : Contains(texts[1], items[i])

RECURSIVE ContainTextArray(_, _, _, _)
\* toContainText(<array>): the items from the m-th on are matched, in order, each by
\* the next element from the r-th on whose text contains it
ContainTextArray(items, texts, m, r) ==
    IF m > Len(items) THEN TRUE
    ELSE IF r > Len(texts) THEN FALSE
    ELSE IF Contains(texts[r], items[m]) THEN ContainTextArray(items, texts, m + 1, r + 1)
    ELSE ContainTextArray(items, texts, m, r + 1)

\* assert(locator, options).toContainText(text, options): a string or RegExp
\* expectation needs the locator to find exactly one element (none: the assertion
\* times out; several: strict mode violation) and is looked for in its text, a string
\* literally; an array expectation is matched against the list of elements
ToContainText(expect, texts) ==
    LET matches ==
            CASE expect.kind = "string" ->
                    Len(texts) = 1 /\ Contains(texts[1], expect.items[1])
              [] expect.kind = "regexp" ->
                    Len(texts) = 1 /\ RegExpTest(ParseFrom(expect.items[1], 1).terms, texts[1])
              [] expect.kind = "array" ->
                    ContainTextArray(expect.items, texts, 1, 1)
    IN IF matches THEN "pass" ELSE "fail"

StringExpectation(w) == [kind |-> "string", items |-> <<w>>]

\* a RegExp object: its pattern is one that compiles
RegExpExpectations(n) ==
    {[kind |-> "regexp", items |-> <<w>>] :
        w \in {v \in StringsOver(PatternChars, n) : ParseFrom(v, 1).ok}}

ArrayExpectations ==
    {[kind |-> "array", items |-> l] :
        l \in ListsOver(StringsOver(TextChars, MaxTextLen) \ {<<>>}, MaxElements) \ {<<>>}}

TextExpectations ==
    {StringExpectation(w) : w \in StringsOver(TextChars, MaxTextLen) \ {<<>>}}
        \cup RegExpExpectations(MaxTextLen) \cup ArrayExpectations

MatchIdle ==
    /\ mFn = "none"
    /\ expected = StringExpectation(<<>>)
    /\ received = <<>>
    /\ mPc = "off"
    /\ mResult = "none"

\* the arguments of the call and the live page
MatchInit ==
    /\ \/ /\ mFn \in {"expectElementToContainAttribute", "expectPageToContainURL"}
          /\ expected \in {StringExpectation(w) : w \in StringsOver(PatternChars, MaxPatternLen)}
          /\ received \in {<<v>> : v \in StringsOver(ValueChars, MaxValueLen)}
       \/ /\ mFn = "expectElementToContainText"
          /\ expected \in TextExpectations
          /\ received \in ListsOver(StringsOver(TextChars, MaxTextLen), MaxElements)
    /\ mPc = "idle"
    /\ mResult = "none"

\* expectElementToContainAttribute(input, attribute, value, options)
ExpectElementToContainAttribute ==
    /\ UNCHANGED notMatch
    /\ mPc = "idle"
    /\ mFn = "expectElementToContainAttribute"
    /\ mResult' = MatchNewRegExp(expected.items[1], received[1])
    /\ mPc' = "done"
    /\ UNCHANGED <<mFn, expected, received>>

\* expectPageToContainURL(url, options)
ExpectPageToContainURL ==
    /\ UNCHANGED notMatch
    /\ mPc = "idle"
    /\ mFn = "expectPageToContainURL"
    /\ mResult' = MatchNewRegExp(expected.items[1], received[1])
    /\ mPc' = "done"
    /\ UNCHANGED <<mFn, expected, received>>

\* expectElementToContainText(input, text, options)
ExpectElementToContainText ==
    /\ UNCHANGED notMatch
    /\ mPc = "idle"
    /\ mFn = "expectElementToContainText"
    /\ mResult' = ToContainText(expected, received)
    /\ mPc' = "done"
    /\ UNCHANGED <<mFn, expected, received>>

MatchNext ==
    \/ ExpectElementToContainAttribute
    \/ ExpectPageToContainURL
    \/ ExpectElementToContainText

----------------------------------------------------------------------------
(* custom-logger.ts: CustomLogger, called by the runner in the main process while the
   workers run the tests *)

\* the tests of the run, by title
Reported == {"Book Category IT books", "verify search history"}

\* TestResult.status
Statuses == {"passed", "failed", "timedOut", "skipped", "interrupted"}

\* retries: process.env.CI ? 2 : 0
Retries == IF ci THEN RetriesOnCI ELSE 0

LogEntry(level, kind, t, a) == [level |-> level, kind |-> kind, test |-> t, attempt |-> a]

\* a hook that logs nothing
OnTestBeginSilent(t, a) == <<>>

\* onTestBegin: logger.info(`Starting Test Case: ${test.title}`)
OnTestBeginLogs(t, a) == <<LogEntry("info", "starting", t, a)>>

\* a hook that logs failures as well
OnTestEndLogsFailed(t, a, st, hasError) ==
    IF st = "passed" THEN <<LogEntry("info", "passed", t, a)>>
    ELSE IF st = "skipped" THEN <<LogEntry("info", "skipped", t, a)>>
    ELSE IF st = "failed" /\ hasError THEN <<LogEntry("error", "failed", t, a)>>
    ELSE <<>>

\* onTestEnd: if (result.status === 'passed') logger.info(...Passed...)
\* else if (result.status === 'skipped') logger.info(...Skipped...)
\* else if (result.status === 'failed' && result.error) { }
OnTestEndLogs(t, a, st, hasError) ==
    IF st = "passed" THEN <<LogEntry("info", "passed", t, a)>>
    ELSE IF st = "skipped" THEN <<LogEntry("info", "skipped", t, a)>>
    ELSE IF st = "failed" /\ hasError THEN <<>>
    ELSE <<>>

\* onError: logger.error(error.message)
OnErrorLogs == <<LogEntry("error", "message", "none", 0)>>

\* a callback that catches what the logger throws
CallbackSwallows(entries, sinkOk) == "returned"

\* the callbacks have no try/catch: when a call of the logger throws, the callback
\* throws
CallbackOutcome(entries, sinkOk) ==
    IF entries # <<>> /\ ~sinkOk THEN "thrown" ELSE "returned"

\* the callback makes the calls `entries` of the logger, which succeed or throw
Callback(cb, t, st, hasError, entries, sinkOk) ==
    /\ log' = log \o entries
    /\ lastLen' = Len(log)
    /\ lastEvent' = [cb |-> cb, test |-> t, status |-> st, hasError |-> hasError,
                     sinkOk |-> sinkOk, outcome |-> CallbackOutcome(entries, sinkOk)]
    /\ rThrown' = rThrown + (IF CallbackOutcome(entries, sinkOk) = "thrown" THEN 1 ELSE 0)

\* the logger may fail at most MaxSinkFailures times
SinkOutcomes == IF rThrown < MaxSinkFailures THEN BOOLEAN ELSE {TRUE}

NoEvent == [cb |-> "none", test |-> "none", status |-> "none", hasError |-> FALSE,
            sinkOk |-> TRUE, outcome |-> "none"]

ReporterInit ==
    /\ ci \in BOOLEAN
    /\ rState = [t \in Reported |-> "pending"]
    /\ attempt = [t \in Reported |-> 0]
    /\ final = [t \in Reported |-> "none"]
    /\ log = <<>>
    /\ lastEvent = NoEvent
    /\ lastLen = 0
    /\ rThrown = 0
    /\ rErrors = 0

\* no run is reported
ReporterIdle ==
    /\ ci = FALSE
    /\ rState = [t \in Reported |-> "off"]
    /\ attempt = [t \in Reported |-> 0]
    /\ final = [t \in Reported |-> "none"]
    /\ log = <<>>
    /\ lastEvent = NoEvent
    /\ lastLen = 0
    /\ rThrown = 0
    /\ rErrors = 0

\* a worker begins test t (for the first time or as a retry): onTestBegin(test)
OnTestBegin ==
    /\ UNCHANGED notReporter
    /\ \E t \in Reported, sinkOk \in SinkOutcomes :
        /\ rState[t] = "pending"
        /\ rState' = [rState EXCEPT ![t] = "running"]
        /\ Callback("onTestBegin", t, "none", FALSE, OnTestBeginLogs(t, attempt[t]), sinkOk)
    /\ UNCHANGED <<ci, attempt, final, rErrors>>

\* test t ends: onTestEnd(test, result); the runner retries a test that failed or
\* timed out while it has retries left
OnTestEnd ==
    /\ UNCHANGED notReporter
    /\ \E t \in Reported, st \in Statuses, hasError \in BOOLEAN, sinkOk \in SinkOutcomes :
        /\ rState[t] = "running"
        /\ hasError => st \in {"failed", "timedOut", "interrupted"}
        /\ LET again == st \in {"failed", "timedOut"} /\ attempt[t] < Retries
           IN /\ rState' = [rState EXCEPT ![t] = IF again THEN "pending" ELSE "done"]
              /\ attempt' = [attempt EXCEPT ![t] = IF again THEN @ + 1 ELSE @]
        /\ final' = [final EXCEPT ![t] = st]
        /\ Callback("onTestEnd", t, st, hasError,
                    OnTestEndLogs(t, attempt[t], st, hasError), sinkOk)
    /\ UNCHANGED <<ci, rErrors>>

\* an error outside the tests: onError(error)
OnError ==
    /\ UNCHANGED notReporter
    /\ rErrors < MaxRunErrors
    /\ rErrors' = rErrors + 1
    /\ \E sinkOk \in SinkOutcomes :
        Callback("onError", "none", "none", TRUE, OnErrorLogs, sinkOk)
    /\ UNCHANGED <<ci, rState, attempt, final>>

ReporterNext ==
    \/ OnTestBegin
    \/ OnTestEnd
    \/ OnError

----------------------------------------------------------------------------
(* locator-utils.ts: getLocatorByTestId, getAllLocators, getFrameLocator,
   getLocatorInFrame *)

\* use: { testIdAttribute: 'data-testid' }
TestIdAttributeConfigured == "data-testid"

AttributeNames == {"data-testid", "data-qa", "id"}

\* the attributeName argument: {} when it is absent, {a} when a is passed; the empty
\* string can be passed
AttributeArgs == {{}} \cup {{a} : a \in AttributeNames \cup {""}}

TestIds == {"t1", "t2"}

\* if (attributeName): undefined and '' are falsy
Truthy(attributeName) == attributeName # {} /\ attributeName # {""}

\* a helper that goes back to the configured attribute when it is given none
SetTestIdAttributeOrDefault(current, attributeName) ==
    IF Truthy(attributeName) THEN CHOOSE a \in attributeName : TRUE
    ELSE TestIdAttributeConfigured

\* if (attributeName) { selectors.setTestIdAttribute(attributeName); }
SetTestIdAttribute(current, attributeName) ==
    IF Truthy(attributeName) THEN CHOOSE a \in attributeName : TRUE ELSE current

\* getPage().getByTestId(testId): the selector is built, at the call, from the attribute
\* the selectors engine has at that moment
GetByTestId(attribute, testId) == [by |-> attribute, id |-> testId]

\* the runner applies use.testIdAttribute when it sets up the context of a test
SetupContextOptions(current) == TestIdAttributeConfigured

Tags == {"li", "p"}

Docs == UNION {[1..n -> Tags] : n \in 0..MaxNodes}

FrameSelectors == {"#frame"}

\* the elements of d the query q matches
Matching(d, q) == {i \in 1..Len(d) : d[i] = q}

\* locator.nth(k - 1)
Nth(q, k) == [query |-> q, nth |-> k]

\* the element of d the handle h stands for: the h.nth-th match of h.query in document
\* order, 0 when there is none
NodeOf(h, d) ==
    LET at == {i \in Matching(d, h.query) :
                  Cardinality({j \in Matching(d, h.query) : j <= i}) = h.nth}
    IN IF at = {} THEN 0 ELSE CHOOSE i \in at : TRUE

\* the query of an input: a string, or a Locator made from one
QueryInputs == {[str |-> q] : q \in Tags} \cup {[query |-> q] : q \in Tags}

QueryOf(input) == IF "str" \in DOMAIN input THEN input.str ELSE input.query

\* a resolution that refuses an empty result
GetAllLocatorsStrict(input, d) ==
    IF Matching(d, QueryOf(input)) = {} THEN [outcome |-> "thrown", handles |-> <<>>]
    ELSE [outcome |-> "returned",
          handles |-> [k \in 1..Cardinality(Matching(d, QueryOf(input))) |->
                          Nth(QueryOf(input), k)]]

\* getAllLocators: typeof input === 'string' ? await getPage().locator(input,
\* options).all() : await input.all(); all() counts the matches and returns nth(0) ..
\* nth(count - 1)
GetAllLocators(input, d) ==
    [outcome |-> "returned",
     handles |-> [k \in 1..Cardinality(Matching(d, QueryOf(input))) |->
                     Nth(QueryOf(input), k)]]

\* getFrameLocator: typeof frameInput === 'string' ? getPage().frameLocator(frameInput)
\* : frameInput
FrameInputs == {[str |-> f] : f \in FrameSelectors} \cup {[frame |-> f] : f \in FrameSelectors}

GetFrameLocator(frameInput) ==
    IF "str" \in DOMAIN frameInput THEN [frame |-> frameInput.str] ELSE frameInput

NoLoc == [frame |-> "none", query |-> "none"]

\* a resolution that looks for the frame when it is called
GetLocatorInFrameChecked(frameInput, input) ==
    IF GetFrameLocator(frameInput).frame \in frames
    THEN [outcome |-> "returned",
          handle |-> [frame |-> GetFrameLocator(frameInput).frame, query |-> QueryOf(input)]]
    ELSE [outcome |-> "NotFound", handle |-> NoLoc]

\* getLocatorInFrame: return getFrameLocator(frameInput).locator(input)
GetLocatorInFrame(frameInput, input) ==
    [outcome |-> "returned",
     handle |-> [frame |-> GetFrameLocator(frameInput).frame, query |-> QueryOf(input)]]

\* await locator.click(options) on a handle in a frame: the action waits for the frame
\* and for one element in it, and rejects when its timeout ends
ClickInFrameOutcome(h, fs, d) ==
    IF h.frame \notin fs THEN "TimeoutError"
    ELSE IF Matching(d, h.query) = {} THEN "TimeoutError"
    ELSE IF Cardinality(Matching(d, h.query)) > 1 THEN "strictModeViolation"
    ELSE "returned"

NoCall == [fn |-> "none", outcome |-> "none", attr |-> {}, by |-> "none", id |-> "none",
           query |-> "none", frame |-> "none", handles |-> <<>>]

LocIdle ==
    /\ lTest = 0
    /\ doc = <<>>
    /\ frames = {}
    /\ testIdAttribute = TestIdAttributeConfigured
    /\ lastSet = "none"
    /\ lastSetTest = 0
    /\ heldLoc = NoLoc
    /\ lastCall = NoCall
    /\ lCalls = 0

\* the first test has been set up
LocInit ==
    /\ lTest = 1
    /\ doc \in Docs
    /\ frames \in SUBSET FrameSelectors
    /\ testIdAttribute = SetupContextOptions(TestIdAttributeConfigured)
    /\ lastSet = "none"
    /\ lastSetTest = 0
    /\ heldLoc = NoLoc
    /\ lastCall = NoCall
    /\ lCalls = 0

\* the test ends and the runner sets up the next one, in the same worker process
NextLocTest ==
    /\ UNCHANGED notLoc
    /\ lTest < MaxLocTests
    /\ lTest' = lTest + 1
    /\ doc' \in Docs
    /\ frames' \in SUBSET FrameSelectors
    /\ testIdAttribute' = SetupContextOptions(testIdAttribute)
    /\ heldLoc' = NoLoc
    /\ lastCall' = NoCall
    /\ UNCHANGED <<lastSet, lastSetTest, lCalls>>

\* getLocatorByTestId(testId, attributeName)
GetLocatorByTestIdCall ==
    /\ UNCHANGED notLoc
    /\ lCalls < MaxLocCalls
    /\ lCalls' = lCalls + 1
    /\ \E testId \in TestIds, attributeName \in AttributeArgs :
        /\ testIdAttribute' = SetTestIdAttribute(testIdAttribute, attributeName)
        /\ lastCall' = [NoCall EXCEPT !.fn = "getLocatorByTestId", !.outcome = "returned",
                                      !.attr = attributeName,
                                      !.by = GetByTestId(testIdAttribute', testId).by,
                                      !.id = GetByTestId(testIdAttribute', testId).id]
        /\ lastSet' = IF Truthy(attributeName) THEN CHOOSE a \in attributeName : TRUE
                      ELSE lastSet
        /\ lastSetTest' = IF Truthy(attributeName) THEN lTest ELSE lastSetTest
    /\ UNCHANGED <<lTest, doc, frames, heldLoc>>

\* getAllLocators(input)
GetAllLocatorsCall ==
    /\ UNCHANGED notLoc
    /\ lCalls < MaxLocCalls
    /\ lCalls' = lCalls + 1
    /\ \E input \in QueryInputs :
        lastCall' = [NoCall EXCEPT !.fn = "getAllLocators",
                                   !.outcome = GetAllLocators(input, doc).outcome,
                                   !.query = QueryOf(input),
                                   !.handles = GetAllLocators(input, doc).handles]
    /\ UNCHANGED <<lTest, doc, frames, testIdAttribute, lastSet, lastSetTest, heldLoc>>

\* getLocatorInFrame(frameInput, input)
GetLocatorInFrameCall ==
    /\ UNCHANGED notLoc
    /\ lCalls < MaxLocCalls
    /\ lCalls' = lCalls + 1
    /\ \E frameInput \in FrameInputs, input \in QueryInputs :
        /\ lastCall' = [NoCall EXCEPT !.fn = "getLocatorInFrame",
                                      !.outcome = GetLocatorInFrame(frameInput, input).outcome,
                                      !.frame = GetFrameLocator(frameInput).frame,
                                      !.query = QueryOf(input)]
        /\ heldLoc' = GetLocatorInFrame(frameInput, input).handle
    /\ UNCHANGED <<lTest, doc, frames, testIdAttribute, lastSet, lastSetTest>>

\* click(input) with the handle getLocatorInFrame returned
ClickInFrame ==
    /\ UNCHANGED notLoc
    /\ lCalls < MaxLocCalls
    /\ heldLoc # NoLoc
    /\ lCalls' = lCalls + 1
    /\ lastCall' = [NoCall EXCEPT !.fn = "click",
                                  !.outcome = ClickInFrameOutcome(heldLoc, frames, doc),
                                  !.frame = heldLoc.frame, !.query = heldLoc.query]
    /\ UNCHANGED <<lTest, doc, frames, testIdAttribute, lastSet, lastSetTest, heldLoc>>

LocNext ==
    \/ NextLocTest
    \/ GetLocatorByTestIdCall
    \/ GetAllLocatorsCall
    \/ GetLocatorInFrameCall
    \/ ClickInFrame

----------------------------------------------------------------------------
(* playwright.config.ts: timeout and expect.timeout; action-utils.ts: an expect...
   helper called without options.timeout *)

\* stand-in for utils/timeout-constants
TEST_TIMEOUT == 120000

\* timeout: TEST_TIMEOUT
TestTimeout == TEST_TIMEOUT

\* an expectation timeout of half the test timeout
ExpectTimeoutHalved == TEST_TIMEOUT \div 2

\* expect: { timeout: TEST_TIMEOUT }
ExpectTimeout == TEST_TIMEOUT

\* the grain of test time
RunTick == TEST_TIMEOUT \div 4

RunInit ==
    /\ tClock = 0
    /\ runPc = "running"
    /\ expectPc = "none"
    /\ expectStart = 0
    /\ expectSoft \in SoftOptions
    /\ condHeld = FALSE
    /\ pagePc = "open"
    /\ runStatus = "passed"
    /\ runErrors = <<>>

\* no such test is run
RunIdle ==
    /\ tClock = 0
    /\ runPc = "off"
    /\ expectPc = "none"
    /\ expectStart = 0
    /\ expectSoft = "unset"
    /\ condHeld = FALSE
    /\ pagePc = "open"
    /\ runStatus = "passed"
    /\ runErrors = <<>>

\* the runner records an error: a test that had passed so far becomes failed, any other
\* status stays
FailWithError(kind) ==
    /\ runErrors' = Append(runErrors, kind)
    /\ runStatus' = (IF runStatus = "passed" THEN "failed" ELSE runStatus)

\* the expectation ends with an error: a soft one has it recorded and the test function
\* goes on; a hard one throws it out of the test function, which ends the test while it
\* runs; once the test has timed out the test function is abandoned, and the runner
\* may or may not still record what it throws
Reports(kind) ==
    IF IsSoft(expectSoft)
    THEN FailWithError(kind) /\ UNCHANGED runPc
    ELSE IF runPc = "running"
         THEN FailWithError(kind) /\ runPc' = "ended"
         ELSE /\ \/ FailWithError(kind)
                 \/ UNCHANGED <<runStatus, runErrors>>
              /\ UNCHANGED runPc

\* test time passes: not beyond the test timeout while the test runs, not beyond the
\* timeout of a pending expectation, and for a bounded time during the teardown
RunElapse ==
    /\ UNCHANGED notRun
    /\ \/ runPc = "running" /\ tClock < TestTimeout
       \/ /\ runPc = "teardown" /\ pagePc = "open"
          /\ tClock < TestTimeout + MaxTeardownTicks * RunTick
    /\ expectPc = "pending" => tClock < expectStart + ExpectTimeout
    /\ tClock' = tClock + RunTick
    /\ UNCHANGED <<runPc, expectPc, expectStart, expectSoft, condHeld, pagePc, runStatus,
                   runErrors>>

\* await expectElementToBeVisible(input) and the like, without options.timeout, after
\* fixtures, hooks and earlier steps of the test have taken some time
ExpectCall ==
    /\ UNCHANGED notRun
    /\ runPc = "running"
    /\ expectPc = "none"
    /\ tClock > 0
    /\ expectPc' = "pending"
    /\ expectStart' = tClock
    /\ UNCHANGED <<tClock, runPc, expectSoft, condHeld, pagePc, runStatus, runErrors>>

\* the condition holds at a retry of the expectation
ConditionHolds ==
    /\ UNCHANGED notRun
    /\ expectPc = "pending"
    /\ runPc = "running"
    /\ expectPc' = "passed"
    /\ condHeld' = TRUE
    /\ UNCHANGED <<tClock, runPc, expectStart, expectSoft, pagePc, runStatus, runErrors>>

\* the timeout of the expectation expires
ExpectExpires ==
    /\ UNCHANGED notRun
    /\ expectPc = "pending"
    /\ pagePc = "open"
    /\ tClock >= expectStart + ExpectTimeout
    /\ expectPc' = "failed"
    /\ Reports("expect")
    /\ UNCHANGED <<tClock, expectStart, expectSoft, condHeld, pagePc>>

\* the test timeout expires: the runner records the timeout, stops waiting for the test
\* function and starts the teardown
TestTimesOut ==
    /\ UNCHANGED notRun
    /\ runPc = "running"
    /\ tClock >= TestTimeout
    /\ runPc' = "teardown"
    /\ runErrors' = Append(runErrors, "timeout")
    /\ runStatus' = (IF runStatus = "passed" THEN "timedOut" ELSE runStatus)
    /\ UNCHANGED <<tClock, expectPc, expectStart, expectSoft, condHeld, pagePc>>

\* the test function returns
TestReturns ==
    /\ UNCHANGED notRun
    /\ runPc = "running"
    /\ expectPc \in {"none", "passed", "failed"}
    /\ runPc' = "ended"
    /\ UNCHANGED <<tClock, expectPc, expectStart, expectSoft, condHeld, pagePc, runStatus,
                   runErrors>>

\* the teardown closes the page: an expectation that is still pending is rejected
ClosePage ==
    /\ UNCHANGED notRun
    /\ runPc = "teardown"
    /\ pagePc = "open"
    /\ pagePc' = "closed"
    /\ IF expectPc = "pending"
       THEN expectPc' = "interrupted" /\ Reports("closed")
       ELSE UNCHANGED <<expectPc, runPc, runStatus, runErrors>>
    /\ UNCHANGED <<tClock, expectStart, expectSoft, condHeld>>

\* the teardown is over
TeardownDone ==
    /\ UNCHANGED notRun
    /\ runPc = "teardown"
    /\ pagePc = "closed"
    /\ runPc' = "ended"
    /\ UNCHANGED <<tClock, expectPc, expectStart, expectSoft, condHeld, pagePc, runStatus,
                   runErrors>>

RunNext ==
    \/ RunElapse
    \/ ExpectCall
    \/ ConditionHolds
    \/ ExpectExpires
    \/ TestTimesOut
    \/ TestReturns
    \/ ClosePage
    \/ TeardownDone

----------------------------------------------------------------------------
(* tests/pages: the selection steps, the composite flows and checkCheckboxes;
   action-utils.ts: getCheckboxes *)

SelectionSteps ==
    {"selectCategory", "selectSubCategoryBooks", "selectBooks", "selectItCategory",
     "selectSubCategoryDvd", "selectDVD", "selectTvCategory"}

\* the locator function each selection step uses
ButtonOf(step) ==
    CASE step = "selectCategory" -> "btn_selectByCategory"
      [] step = "selectSubCategoryBooks" -> "btn_booksMusicGames"
      [] step = "selectBooks" -> "btn_books"
      [] step = "selectItCategory" -> "btn_computersTechnology"
      [] step = "selectSubCategoryDvd" -> "btn_dvdCategory"
      [] step = "selectDVD" -> "btn_dvdSubCategory"
      [] step = "selectTvCategory" -> "btn_tv"

\* a step that clicks before it looks
StepBodyClickFirst(step) ==
    << [step |-> step, do |-> "click", on |-> ButtonOf(step)],
       [step |-> step, do |-> "expect", on |-> ButtonOf(step)] >>

\* await expectElementToBeVisible(btn()); await click(btn());
StepBody(step) ==
    << [step |-> step, do |-> "expect", on |-> ButtonOf(step)],
       [step |-> step, do |-> "click", on |-> ButtonOf(step)] >>

CompositeFlows ==
    {"generateSearchHistoryWithDvd", "generateSearchHistoryWithBooksIt",
     "Book Category IT books"}

Flows == CompositeFlows \cup SelectionSteps

\* the steps a flow awaits, in the order of its statements; the test 'Book Category IT
\* books' calls the steps of the books flow one by one
StepsOf(flow) ==
    CASE flow = "generateSearchHistoryWithDvd" ->
            <<"selectCategory", "selectSubCategoryDvd", "selectDVD", "selectTvCategory">>
      [] flow \in {"generateSearchHistoryWithBooksIt", "Book Category IT books"} ->
            <<"selectCategory", "selectSubCategoryBooks", "selectBooks", "selectItCategory">>
      [] OTHER -> <<flow>>

RECURSIVE ProgramOf(_)
\* the statements a sequence of steps executes
ProgramOf(called) ==
    IF called = <<>> THEN <<>> ELSE StepBody(Head(called)) \o ProgramOf(Tail(called))

Program == ProgramOf(StepsOf(pgFlow))

ButtonsOf(flow) == {ButtonOf(StepsOf(flow)[k]) : k \in 1..Len(StepsOf(flow))}

\* the statement the flow is at
Cur == Program[pgIx]

\* the innerText of a label, as a sequence of characters
InnerTexts == {<<"a">>, <<" ", "a", " ">>, <<"b">>, <<" ">>}

\* what a label contains: no input[type="checkbox"], an unchecked one or a checked one
CheckboxInputs == {"none", "unchecked", "checked"}

RECURSIVE TrimStart(_)
TrimStart(t) == IF t # <<>> /\ Head(t) = " " THEN TrimStart(Tail(t)) ELSE t

RECURSIVE TrimEnd(_)
TrimEnd(t) == IF t # <<>> /\ t[Len(t)] = " " THEN TrimEnd(SubSeq(t, 1, Len(t) - 1)) ELSE t

\* String.prototype.trim
Trim(t) == TrimEnd(TrimStart(t))

\* a label without an input taken for a checked one
CheckboxCheckedOrMissing(input) ==
    CASE input = "checked" -> "true"
      [] input = "unchecked" -> "false"
      [] input = "none" -> "true"

\* checkbox?.checked
CheckboxChecked(input) ==
    CASE input = "checked" -> "true"
      [] input = "unchecked" -> "false"
      [] input = "none" -> "undefined"

\* getCheckboxes(): $$eval('label.merCheckboxLabel', labels => labels.map(...))
GetCheckboxes(ls) ==
    [i \in 1..Len(ls) |-> [text |-> Trim(ls[i].innerText),
                           isChecked |-> CheckboxChecked(ls[i].input)]]

\* checkbox => checkbox.isChecked, as a filter
IsCheckedTruthy(checkbox) == checkbox.isChecked = "true"

\* expect(got).toEqual(want) on arrays of strings
ToEqual(got, want) ==
    /\ Len(got) = Len(want)
    /\ \A i \in 1..Len(got) : got[i] = want[i]

\* checkCheckboxes(expectedCheckedTexts): the expectation passes
CheckCheckboxes(ls, want) ==
    LET checkboxes == GetCheckboxes(ls)
        checkedCheckboxes == SelectSeq(checkboxes, IsCheckedTruthy)
        checkedTexts == [i \in 1..Len(checkedCheckboxes) |-> checkedCheckboxes[i].text]
    IN ToEqual(checkedTexts, want)

\* the texts a test may expect
ExpectedTexts == {<<"a">>, <<"b">>, <<" ", "a", " ">>}

\* nothing of the page object is run
PageIdle ==
    /\ pgFlow = "selectCategory"
    /\ pgIx = 1
    /\ pgPc = "off"
    /\ shown = {}
    /\ pgLog = <<>>
    /\ labels = <<>>
    /\ expectedCheckedTexts = <<>>
    /\ checkResult = "none"
    /\ pgChanges = 0

\* a flow is called on a page that shows some of its buttons
FlowInit ==
    /\ pgFlow \in Flows
    /\ pgIx = 1
    /\ pgPc = "running"
    /\ shown \in SUBSET ButtonsOf(pgFlow)
    /\ pgLog = <<>>
    /\ labels = <<>>
    /\ expectedCheckedTexts = <<>>
    /\ checkResult = "none"
    /\ pgChanges = 0

\* checkCheckboxes is about to be called on a page with some checkbox labels
CheckboxInit ==
    /\ pgFlow = "checkCheckboxes"
    /\ pgIx = 1
    /\ pgPc = "running"
    /\ shown = {}
    /\ pgLog = <<>>
    /\ labels \in ListsOver([innerText : InnerTexts, input : CheckboxInputs], MaxLabels)
    /\ expectedCheckedTexts \in ListsOver(ExpectedTexts, MaxExpected)
    /\ checkResult = "none"
    /\ pgChanges = 0

\* the page changes while the flow runs: a button appears or disappears
ButtonChanges ==
    /\ UNCHANGED notPg
    /\ pgPc = "running"
    /\ pgFlow \in Flows
    /\ pgChanges < MaxPageChanges
    /\ pgChanges' = pgChanges + 1
    /\ \E b \in ButtonsOf(pgFlow) :
        shown' = (IF b \in shown THEN shown \ {b} ELSE shown \cup {b})
    /\ UNCHANGED <<pgFlow, pgIx, pgPc, pgLog, labels, expectedCheckedTexts, checkResult>>

\* the statement the flow is at ends without an error: the flow goes on
StatementDone ==
    /\ pgLog' = Append(pgLog, [step |-> Cur.step, do |-> Cur.do, on |-> Cur.on, ok |-> TRUE])
    /\ pgIx' = pgIx + 1
    /\ UNCHANGED pgPc

\* the statement the flow is at throws: the error leaves the step and the flow
StatementThrows ==
    /\ pgLog' = Append(pgLog, [step |-> Cur.step, do |-> Cur.do, on |-> Cur.on, ok |-> FALSE])
    /\ pgPc' = "thrown"
    /\ UNCHANGED pgIx

\* await expectElementToBeVisible(btn()): the button is visible
ExpectPasses ==
    /\ UNCHANGED notPg
    /\ pgPc = "running" /\ pgFlow \in Flows
    /\ pgIx <= Len(Program)
    /\ Cur.do = "expect"
    /\ Cur.on \in shown
    /\ StatementDone
    /\ UNCHANGED <<pgFlow, shown, labels, expectedCheckedTexts, checkResult, pgChanges>>

\* await expectElementToBeVisible(btn()): the button is not visible when the timeout of
\* the expectation expires
ExpectFails ==
    /\ UNCHANGED notPg
    /\ pgPc = "running" /\ pgFlow \in Flows
    /\ pgIx <= Len(Program)
    /\ Cur.do = "expect"
    /\ Cur.on \notin shown
    /\ StatementThrows
    /\ UNCHANGED <<pgFlow, shown, labels, expectedCheckedTexts, checkResult, pgChanges>>

\* await click(btn()): the button is clicked
ClickDone ==
    /\ UNCHANGED notPg
    /\ pgPc = "running" /\ pgFlow \in Flows
    /\ pgIx <= Len(Program)
    /\ Cur.do = "click"
    /\ Cur.on \in shown
    /\ StatementDone
    /\ UNCHANGED <<pgFlow, shown, labels, expectedCheckedTexts, checkResult, pgChanges>>

\* await click(btn()): the button is not there to be clicked when the timeout of the
\* action expires
ClickFails ==
    /\ UNCHANGED notPg
    /\ pgPc = "running" /\ pgFlow \in Flows
    /\ pgIx <= Len(Program)
    /\ Cur.do = "click"
    /\ Cur.on \notin shown
    /\ StatementThrows
    /\ UNCHANGED <<pgFlow, shown, labels, expectedCheckedTexts, checkResult, pgChanges>>

\* the flow has run its last statement and returns
FlowReturns ==
    /\ UNCHANGED notPg
    /\ pgPc = "running" /\ pgFlow \in Flows
    /\ pgIx > Len(Program)
    /\ pgPc' = "returned"
    /\ UNCHANGED <<pgFlow, pgIx, shown, pgLog, labels, expectedCheckedTexts, checkResult,
                   pgChanges>>

FlowNext ==
    \/ ButtonChanges
    \/ ExpectPasses
    \/ ExpectFails
    \/ ClickDone
    \/ ClickFails
    \/ FlowReturns

\* a checkbox is ticked or unticked before checkCheckboxes is called
CheckboxToggles ==
    /\ UNCHANGED notPg
    /\ pgPc = "running"
    /\ pgFlow = "checkCheckboxes"
    /\ pgChanges < MaxPageChanges
    /\ pgChanges' = pgChanges + 1
    /\ \E i \in 1..Len(labels) :
        /\ labels[i].input # "none"
        /\ labels' = [labels EXCEPT ![i].input =
                        IF labels[i].input = "checked" THEN "unchecked" ELSE "checked"]
    /\ UNCHANGED <<pgFlow, pgIx, pgPc, shown, pgLog, expectedCheckedTexts, checkResult>>

\* await checkCheckboxes(expectedCheckedTexts): returns when the expectation passes and
\* throws when it fails
CheckCheckboxesCall ==
    /\ UNCHANGED notPg
    /\ pgPc = "running"
    /\ pgFlow = "checkCheckboxes"
    /\ IF CheckCheckboxes(labels, expectedCheckedTexts)
       THEN checkResult' = "pass" /\ pgPc' = "returned"
       ELSE checkResult' = "fail" /\ pgPc' = "thrown"
    /\ UNCHANGED <<pgFlow, pgIx, shown, pgLog, labels, expectedCheckedTexts, pgChanges>>

CheckboxNext ==
    \/ CheckboxToggles
    \/ CheckCheckboxesCall

----------------------------------------------------------------------------
(* Specifications: each part is checked on its own, the other parts idle *)

Init ==
    PollInit /\ NavIdle /\ TestIdle /\ WorkerIdle /\ MatchIdle /\ ReporterIdle
    /\ LocIdle /\ RunIdle /\ PageIdle

Next ==
    \/ Call
    \/ Sample
    \/ Sleep
    \/ LoopExit
    \/ IsChecked
    \/ WaitForAttached

Spec == Init /\ [][Next]_vars

\* the event loop runs every continuation and timer that is ready
FairSpec == Spec /\ WF_vars(Next)

NavSpecInit ==
    PollIdle /\ NavInit /\ TestCalling /\ WorkerIdle /\ MatchIdle /\ ReporterIdle
    /\ LocIdle /\ RunIdle /\ PageIdle

NavSpec == NavSpecInit /\ [][NavNext]_vars

TestSpecInit ==
    PollIdle /\ NavIdle /\ TestInit /\ WorkerIdle /\ MatchIdle /\ ReporterIdle
    /\ LocIdle /\ RunIdle /\ PageIdle

TestSpec == TestSpecInit /\ [][TestNext]_vars

WorkerSpecInit ==
    PollIdle /\ NavIdle /\ TestIdle /\ WorkerInit /\ MatchIdle /\ ReporterIdle
    /\ LocIdle /\ RunIdle /\ PageIdle

WorkerSpec == WorkerSpecInit /\ [][WorkerNext]_vars

MatchSpecInit ==
    PollIdle /\ NavIdle /\ TestIdle /\ WorkerIdle /\ MatchInit /\ ReporterIdle
    /\ LocIdle /\ RunIdle /\ PageIdle

MatchSpec == MatchSpecInit /\ [][MatchNext]_vars

ReporterSpecInit ==
    PollIdle /\ NavIdle /\ TestIdle /\ WorkerIdle /\ MatchIdle /\ ReporterInit
    /\ LocIdle /\ RunIdle /\ PageIdle

ReporterSpec == ReporterSpecInit /\ [][ReporterNext]_vars

\* a function of element-utils.ts that takes a timeout, or a navigation action, is
\* about to be called
TimeoutSpecInit ==
    \/ /\ TimedInit /\ NavIdle /\ TestIdle /\ WorkerIdle /\ MatchIdle /\ ReporterIdle
       /\ LocIdle /\ RunIdle /\ PageIdle
    \/ NavSpecInit

TimeoutNext == Next \/ NavNext

TimeoutSpec == TimeoutSpecInit /\ [][TimeoutNext]_vars

LocSpecInit ==
    PollIdle /\ NavIdle /\ TestIdle /\ WorkerIdle /\ MatchIdle /\ ReporterIdle
    /\ LocInit /\ RunIdle /\ PageIdle

LocSpec == LocSpecInit /\ [][LocNext]_vars

RunSpecInit ==
    PollIdle /\ NavIdle /\ TestIdle /\ WorkerIdle /\ MatchIdle /\ ReporterIdle
    /\ LocIdle /\ RunInit /\ PageIdle

RunSpec == RunSpecInit /\ [][RunNext]_vars

FlowSpecInit ==
    PollIdle /\ NavIdle /\ TestIdle /\ WorkerIdle /\ MatchIdle /\ ReporterIdle /\ LocIdle
    /\ RunIdle /\ FlowInit

FlowSpec == FlowSpecInit /\ [][FlowNext]_vars

CheckboxSpecInit ==
    PollIdle /\ NavIdle /\ TestIdle /\ WorkerIdle /\ MatchIdle /\ ReporterIdle /\ LocIdle
    /\ RunIdle /\ CheckboxInit

CheckboxSpec == CheckboxSpecInit /\ [][CheckboxNext]_vars

----------------------------------------------------------------------------
(* Claims about the element-state conditions *)

Given == CHOOSE t \in options : TRUE

Polled == pc = "done" /\ fn \in PollFns /\ throwAt = 0

\* C1 as stated: for (positive) timeouts T1 < t < T2 and a condition that is false
\* before t and true from t on, the polling wait configured with T1 returns false and
\* the one configured with T2 returns true.
C1_AsStated ==
    (Polled /\ options # {} /\ options # {0}) =>
        /\ (Given < condAt => result = "false")
        /\ (condAt < Given => result = "true")

\* C1 amended: for positive timeouts T1 < t < T2, the wait configured with T1 returns
\* false provided its samples are answered without latency, and the wait configured
\* with T2 returns true provided t + 100 ms + the latency and sleep overshoot the wait
\* accumulated is at most T2.
C1_Amended ==
    (Polled /\ options # {} /\ options # {0}) =>
        /\ (Given < condAt /\ latency = 0 => result = "false")
        /\ (condAt + PollInterval + latency + overshoot <= Given => result = "true")

C1_Witness ==
    /\ Polled /\ options # {} /\ options # {0}
    /\ condAt > 0
    /\ condAt + PollInterval + latency + overshoot <= Given
    /\ samples >= 2
    /\ result = "true"

\* C2 as stated: a sample that raises is treated as "not yet true" and polling goes on,
\* so a wait in which a sample raised, whose condition holds by the next sample and
\* whose next sample would still fall before the timeout, returns true.
C2_AsStated ==
    (pc = "done" /\ fn \in PollFns /\ threw
        /\ condAt <= now + PollInterval
        /\ LoopCond(now + SleepFor(MaxOvershootTicks * Tick), startTime, timeoutInMs))
    => result = "true"

\* C3: isElementVisible, isElementHidden, isElementChecked and isElementAttached end
\* with a boolean and never with an exception, whatever the element queries do, and
\* the boolean is false whenever a query raised or no sample was true.
C3_NeverThrows ==
    /\ [](pc = "done" =>
            /\ result \in {"true", "false"}
            /\ (threw => result = "false")
            /\ (~sawTrue => result = "false"))
    /\ <>(pc = "done")

C3_Witness == pc = "done" /\ threw /\ samples >= 2 /\ result = "false"

FalseFor300 ==
    Polled /\ options = {3 * PollInterval} /\ condAt = Never

FirstSampleImmediate ==
    fn \in PollFns =>
        /\ sleeps <= samples
        /\ (pc = "sleep" => sleeps < samples)
        /\ (pc = "done" /\ result = "true" /\ samples = 1 => sleeps = 0 /\ Elapsed = latency)

\* C4 as stated: an always-false predicate polled with timeout 300 ms is sampled at
\* least 3 times and the wait returns false after 300 to 400 ms; the first sample
\* precedes every sleep and a true first sample returns true without a sleep.
C4_AsStated ==
    /\ FalseFor300 =>
        /\ result = "false"
        /\ samples >= 3
        /\ Elapsed >= 3 * PollInterval
        /\ Elapsed <= 4 * PollInterval
    /\ FirstSampleImmediate

\* C4 amended: an always-false predicate polled with timeout 300 ms is sampled at
\* least once, the wait never returns true and returns false no earlier than 300 ms;
\* when the latency and sleep overshoot of the wait add up to less than 100 ms it is
\* sampled exactly 3 times and returns before 400 ms. The first sample precedes every
\* sleep and a true first sample returns true without a sleep.
C4_Amended ==
    /\ FalseFor300 =>
        /\ result = "false"
        /\ samples >= 1
        /\ Elapsed >= 3 * PollInterval
        /\ (latency + overshoot < PollInterval =>
                samples = 3 /\ Elapsed < 4 * PollInterval)
    /\ FirstSampleImmediate

C4_Witness == FalseFor300 /\ latency + overshoot < PollInterval /\ samples = 3 /\ sleeps = 3

----------------------------------------------------------------------------
(* Claims about clickAndNavigate, reloadPage and goBack *)

\* C5 as stated: when clickAndNavigate, reloadPage or goBack returns or throws, both
\* joined calls (the primitive and the wait for 'framenavigated') have settled.
C5_AsStated ==
    navPc \in {"returned", "thrown"} => prim \in Settled /\ evWait \in Settled

\* C5 amended: a joined call that rejects (its timeout expires) makes the operation
\* throw, and so does the load-state wait that times out; on a normal return both
\* joined calls are fulfilled; when the operation throws, a joined call is still
\* pending only if the other one rejected.
C5_Amended ==
    /\ (prim = "rejected" \/ evWait = "rejected") => navPc = "thrown"
    /\ navPc = "returned" => prim = "fulfilled" /\ evWait = "fulfilled"
    /\ navPc = "thrown" =>
        /\ navErr # "none"
        /\ (firstRej = "none" => navErr = "waitForLoadState")
        /\ ((prim = "pending" \/ evWait = "pending") => firstRej # "none")

C5_Witness == navPc = "thrown" /\ prim = "pending" /\ evWait = "rejected"

\* the joined calls that have failed, and the ones the caught error names
FailedCalls ==
    {c \in {PrimName, "waitForEvent"} :
        \/ c = PrimName /\ prim = "rejected"
        \/ c = "waitForEvent" /\ evWait = "rejected"}

ToldCalls == {navErr} \cap {PrimName, "waitForEvent"}

\* C6 as stated: clickAndNavigate fails with the navigation-timeout error when the
\* click succeeds and no navigation event arrives, an error distinct from that of a
\* failing click, and when both fail the caller can tell which of the two failed.
C6_AsStated ==
    (navOp = "clickAndNavigate" /\ navPc = "thrown" /\ navErr # "waitForLoadState") =>
        /\ (prim = "fulfilled" /\ evWait = "rejected" => navErr = "waitForEvent")
        /\ ToldCalls = FailedCalls

\* C6 amended: clickAndNavigate fails with the timeout error of waitForEvent when the
\* click succeeds and no navigation event arrives, an error distinct from that of a
\* failing click; the caller catches the error of the joined call that rejected first
\* and of no other, so when both fail the later failure is not reported.
C6_Amended ==
    (navOp = "clickAndNavigate" /\ navPc = "thrown") =>
        /\ (prim = "fulfilled" /\ evWait = "rejected" => navErr = "waitForEvent")
        /\ (prim = "rejected" /\ evWait # "rejected" => navErr = "click")
        /\ (firstRej # "none" => navErr = firstRej)
        /\ (firstRej = "none" => navErr = "waitForLoadState")
        /\ ToldCalls \subseteq FailedCalls

C6_Witness ==
    /\ navOp = "clickAndNavigate" /\ navPc = "thrown"
    /\ prim = "rejected" /\ evWait = "rejected"
    /\ navErr = "waitForEvent"

\* C7: in clickAndNavigate, reloadPage and goBack the listener for 'framenavigated' is
\* registered before an event caused by the primitive can be delivered: no event is
\* delivered before the wait for it has begun.
C7_ListenerFirst ==
    /\ ~missed
    /\ (prim # "none" => evWait # "none")
    /\ (navEvent # "none" => evWait # "none")

C7_Witness == navEvent = "delivered" /\ evWait = "fulfilled" /\ prim = "pending"

\* C8: reloadPage and goBack begin the wait for the load state only after the
\* primitive has completed and 'framenavigated' has been observed, and return only
\* after the configured load state has then been reached.
C8_SettledReturn ==
    navOp \in {"reloadPage", "goBack"} =>
        /\ (navPc \in {"loadState", "returned"} =>
                prim = "fulfilled" /\ evWait = "fulfilled" /\ navEvent = "delivered")
        /\ (navPc = "returned" =>
                lifecycle >= Level(WaitForPageLoadStateTarget(navWait)))

C8_Witness ==
    /\ navOp \in {"reloadPage", "goBack"}
    /\ navPc = "returned"
    /\ navWait = "commit"

ClickFor2000 == navOp = "clickAndNavigate" /\ clickOptions = {2000}

\* C11: clickAndNavigate called with timeout 2000 ms, whose navigation event does not
\* arrive, never gets past the join and does not wait beyond 2000 ms; once the click is
\* performed it throws, at 2000 ms, the timeout error of the wait for the navigation
\* event, and the error list of the test is as it was before the call: its soft
\* entries never change, and only the runner appends the thrown error once it has left
\* the test function.
C11_NavigationTimeout ==
    /\ (ClickFor2000 /\ navPc = "join" => navClock <= 2000)
    /\ (ClickFor2000 /\ navEvent # "delivered" => navPc \notin {"loadState", "returned"})
    /\ (ClickFor2000 /\ prim = "fulfilled" /\ evWait = "rejected" =>
            /\ navPc = "thrown"
            /\ navErr = "waitForEvent"
            /\ navClock = 2000
            /\ errors = (IF tPc = "running" THEN errorsBefore
                         ELSE Append(errorsBefore, "hard"))
            /\ SelectSeq(errors, LAMBDA e : e = "soft") = errorsBefore)

C11_Witness ==
    /\ ClickFor2000 /\ prim = "fulfilled" /\ evWait = "rejected" /\ navEvent = "none"
    /\ navPc = "thrown" /\ navErr = "waitForEvent" /\ navClock = 2000
    /\ tPc = "running" /\ Len(errorsBefore) = 2 /\ errors = errorsBefore

----------------------------------------------------------------------------
(* Claims about the assertion layer *)

\* C9: a call of assertAllSoftAssertions made after exactly N soft expectations failed
\* finds exactly N entries in the error list; when N > 0 it throws, once, and the test
\* ends failed; when N = 0 it does not throw and the test is still passing.
C9_Batching ==
    last \in {"assertAllPass", "assertAllFail"} =>
        /\ seen = softFails
        /\ (softFails > 0 =>
                last = "assertAllFail" /\ tPc = "ended" /\ status = "failed" /\ throws = 1)
        /\ (softFails = 0 =>
                last = "assertAllPass" /\ tPc = "running" /\ status = "passed" /\ throws = 0)

C9_Witness == last = "assertAllFail" /\ softFails >= 2 /\ seen = softFails

SoftRecorded == Len(SelectSeq(errors, LAMBDA e : e = "soft"))

HardStopsSoftGoesOn ==
    /\ (last = "hardFail" => tPc = "ended" /\ throws = 1)
    /\ (last = "softFail" =>
            tPc = "running" /\ throws = 0 /\ errors[Len(errors)] = "soft")
    /\ SoftRecorded = softFails

\* C10 as stated: a failing hard expectation ends the test at once; a failing soft one
\* is appended to the error list and the test goes on, and it makes the test fail only
\* through a call of assertAllSoftAssertions: without one the test still passes.
C10_AsStated ==
    /\ HardStopsSoftGoesOn
    /\ (tPc = "ended" /\ softFails > 0 /\ calls = 0 /\ throws = 0 => status = "passed")

\* C10 amended: a failing hard expectation ends the test at once; a failing soft one
\* is appended to the error list and the test goes on, and it marks the test failed
\* whether or not assertAllSoftAssertions is called: the call only ends the test at
\* that point.
C10_Amended ==
    /\ HardStopsSoftGoesOn
    /\ (softFails > 0 => status = "failed")
    /\ (status = "failed" <=> errors # <<>>)

C10_Witness ==
    /\ last = "end" /\ softFails > 0 /\ calls = 0 /\ throws = 0
    /\ steps > softFails
    /\ status = "failed"

----------------------------------------------------------------------------
(* Claims about the actions, the locators and the page handle *)

RECURSIVE ActionsOnPages(_)
\* the actions performed on the pages 0 .. n
ActionsOnPages(n) == IF n = 0 THEN dom[0] ELSE dom[n] + ActionsOnPages(n - 1)

\* C12: each action of the dispatcher (click, fill, clear, check, uncheck,
\* selectByValue, selectByText, selectByIndex) resolves its input and acts on the
\* resolved element, a string input being resolved on the current page; it returns
\* normally exactly when the element was actionable within the timeout, and when it
\* was not, the call throws to the caller and the test function ends there; an action
\* is performed on a page only by an action that returns.
C12_ActionErrorSurfaces ==
    /\ lastAct.op \in ActionOps =>
        /\ (lastAct.str => lastAct.on = page)
        /\ (lastAct.outcome = "returned" <=> lastAct.intime)
        /\ (lastAct.intime => dom[lastAct.on] > 0)
        /\ (~lastAct.intime /\ lastAct.timed =>
                lastAct.outcome = "thrown" /\ wPc = "between")
    /\ ActionsOnPages(MaxTests) = acts

C12_Witness ==
    /\ lastAct.op = "selectByIndex" /\ lastAct.str
    /\ ~lastAct.intime /\ lastAct.timed /\ lastAct.outcome = "thrown"
    /\ acts > 0

\* C19: getLocator given a string makes a new handle on the page that is current at
\* the call, whether or not a handle was made for the same string before, and given a
\* handle returns that handle; resolving performs no action on a page: the actions
\* performed on the pages are those of the dispatcher, however many resolutions were
\* made.
C19_LazyResolution ==
    /\ (lastRes.kind = "string" =>
            /\ lastRes.result.page = page
            /\ page = testNo
            /\ made[lastRes.result.query] = lastRes.result)
    /\ (lastRes.kind = "locator" => lastRes.result = lastRes.prev)
    /\ (acts = 0 => \A p \in 0..MaxTests : dom[p] = 0)
    /\ ActionsOnPages(MaxTests) = acts

C19_Witness ==
    /\ lastRes.kind = "string"
    /\ lastRes.prev # NoHandle /\ lastRes.prev.page = 1
    /\ lastRes.result.page = 2 /\ lastRes.result.query = lastRes.prev.query
    /\ resolutions >= 2 /\ acts = 0

\* C20: the page handle changes only in the before-each hook of a test, which sets it
\* to the page of that test; while the hooks and the function of a test run, the handle
\* is the page of that test, every step that uses a page uses that page, and every
\* locator a step holds belongs to it: no step uses the page of an earlier test.
C20_PagePerTest ==
    /\ [](/\ stray = 0
          /\ (wPc \in {"describeHook", "body"} => page = testNo)
          /\ (held # NoHandle => held.page = testNo)
          /\ (lastRes.kind # "none" => lastRes.result.page = testNo)
          /\ (lastAct.op # "none" => lastAct.on = testNo)
          /\ lastOn <= testNo
          /\ \A p \in 0..MaxTests : p > testNo => dom[p] = 0)
    /\ [][/\ (page' # page => wPc = "beforeEach" /\ page' = testNo)
          /\ (lastOn' # lastOn => lastOn' = testNo)
          /\ \A p \in 0..MaxTests : dom'[p] # dom[p] => p = testNo]_vars

C20_Witness ==
    /\ testNo = 2 /\ wPc = "body"
    /\ page = 2 /\ lastOn = 2
    /\ held # NoHandle /\ held.page = 2
    /\ lastAct.outcome = "returned" /\ lastAct.on = 2 /\ ~lastAct.str
    /\ dom[1] >= 1 /\ dom[2] >= 1

----------------------------------------------------------------------------
(* Claims about the matching assertions *)

\* C13 as stated: expectElementToContainAttribute given a plain string passes when the
\* live attribute value contains that string (also when it is not equal to it) and
\* fails when it does not, for every string, also one with characters that have a
\* meaning in a regular expression.
C13_AsStated ==
    (mFn = "expectElementToContainAttribute" /\ mPc = "done") =>
        mResult = (IF Contains(received[1], expected.items[1]) THEN "pass" ELSE "fail")

\* C14 as stated: expectPageToContainURL(url) passes exactly when the URL of the page
\* contains url as a literal substring, for every string url, also one with '.', '?',
\* '+' or a parenthesis.
C14_AsStated ==
    (mFn = "expectPageToContainURL" /\ mPc = "done") =>
        (mResult = "pass" <=> Contains(received[1], expected.items[1]))

ContainTextDone == mFn = "expectElementToContainText" /\ mPc = "done"

\* the text of the element contains the string, or the RegExp matches somewhere in it
OneElementMatches ==
    /\ Len(received) = 1
    /\ IF expected.kind = "string" THEN Contains(received[1], expected.items[1])
       ELSE MatchNewRegExp(expected.items[1], received[1]) = "pass"

\* C15 as stated: expectElementToContainText given an array of alternatives passes if
\* any one alternative is contained in the text of the element; given a string it
\* passes when the text contains the string and given a regular expression when the
\* text matches it.
C15_AsStated ==
    ContainTextDone =>
        /\ (expected.kind = "array" /\ Len(received) = 1 =>
                (mResult = "pass" <=>
                    \E i \in 1..Len(expected.items) : Contains(received[1], expected.items[i])))
        /\ (expected.kind # "array" => (mResult = "pass" <=> OneElementMatches))

\* C15 amended: expectElementToContainText given an array passes exactly when the
\* located elements include, in the order of the array, one element for every item of
\* the array whose text contains that item (the items are not alternatives for one
\* element); given a string it passes exactly when the single located element's text
\* contains the string literally, and given a regular expression exactly when that
\* text matches it somewhere.
C15_Amended ==
    ContainTextDone =>
        /\ (expected.kind = "array" =>
                (mResult = "pass" <=>
                    \E f \in [1..Len(expected.items) -> 1..Len(received)] :
                        /\ \A i \in 1..Len(expected.items) :
                            Contains(received[f[i]], expected.items[i])
                        /\ \A i, j \in 1..Len(expected.items) : i < j => f[i] < f[j]))
        /\ (expected.kind # "array" => (mResult = "pass" <=> OneElementMatches))
        /\ mResult \in {"pass", "fail"}

C15_Witness ==
    /\ ContainTextDone /\ expected.kind = "array" /\ mResult = "fail"
    /\ Len(expected.items) = 2 /\ Len(received) = 2
    /\ Contains(received[1], expected.items[2])
    /\ Contains(received[2], expected.items[1])
    /\ ~Contains(received[2], expected.items[2])

----------------------------------------------------------------------------
(* Claims about the reporter *)

\* the positions in log of the calls of kind k for test t
LogsOf(k, t) == {i \in 1..Len(log) : log[i].kind = k /\ log[i].test = t}

\* the positions in log of the calls of kind k for the attempt a of test t
LogsOfAttempt(k, t, a) == {i \in LogsOf(k, t) : log[i].attempt = a}

\* C16 as stated: for every test that has begun and has ended with status passed, the
\* reporter has emitted exactly one "starting" log and exactly one "passed" log for
\* that test, the former before the latter, whatever the events of the other test.
C16_AsStated ==
    \A t \in Reported :
        (rState[t] = "done" /\ final[t] = "passed") =>
            /\ Cardinality(LogsOf("starting", t)) = 1
            /\ Cardinality(LogsOf("passed", t)) = 1
            /\ \A i \in LogsOf("starting", t), j \in LogsOf("passed", t) : i < j

\* C16 amended: for every attempt of a test that has begun and has ended with status
\* passed, the reporter has emitted exactly one "starting" log and exactly one "passed"
\* log for that attempt, the former before the latter, whatever the events of the other
\* test; a test that passes after r retries has r + 1 "starting" logs, all before its
\* one "passed" log.
C16_Amended ==
    \A t \in Reported :
        /\ Cardinality(LogsOf("starting", t)) =
                attempt[t] + (IF rState[t] = "pending" THEN 0 ELSE 1)
        /\ (rState[t] = "done" /\ final[t] = "passed") =>
            /\ Cardinality(LogsOfAttempt("starting", t, attempt[t])) = 1
            /\ Cardinality(LogsOfAttempt("passed", t, attempt[t])) = 1
            /\ Cardinality(LogsOf("passed", t)) = 1
            /\ \A i \in LogsOf("starting", t), j \in LogsOf("passed", t) : i < j
        /\ (final[t] # "passed" => LogsOf("passed", t) = {})

C16_Witness ==
    \E t \in Reported, u \in Reported :
        /\ t # u
        /\ rState[t] = "done" /\ final[t] = "passed" /\ attempt[t] = 1
        /\ rState[u] = "done" /\ final[u] = "passed" /\ attempt[u] = 0
        /\ \E i \in LogsOf("starting", t), k \in LogsOf("starting", u),
              j \in LogsOf("passed", t), l \in LogsOf("passed", u) :
                i < k /\ k < j /\ j < l

\* the calls of the logger made by the last callback
NewLogs == SubSeq(log, lastLen + 1, Len(log))

\* C17: onTestEnd emits exactly one info log, for the test that ended, when the status
\* is passed or skipped, and no log for any other status (failed with or without an
\* error, timedOut, interrupted); the reporter never logs a failed test.
C17_EndLogging ==
    /\ lastEvent.cb = "onTestEnd" =>
        /\ (lastEvent.status \in {"passed", "skipped"} =>
                /\ Len(NewLogs) = 1
                /\ NewLogs[1].level = "info"
                /\ NewLogs[1].kind = lastEvent.status
                /\ NewLogs[1].test = lastEvent.test)
        /\ (lastEvent.status \notin {"passed", "skipped"} => NewLogs = <<>>)
    /\ \A i \in 1..Len(log) : log[i].kind \in {"starting", "passed", "skipped", "message"}

C17_Witness ==
    /\ lastEvent.cb = "onTestEnd" /\ lastEvent.status = "failed" /\ lastEvent.hasError
    /\ rState[lastEvent.test] = "done"
    /\ NewLogs = <<>> /\ Len(log) > 0

\* C18: every callback makes its calls of the logger before it returns and they depend
\* on its own event only: onTestBegin one info log for its test, onError one
\* error-level log of the message, onTestEnd at most one log for its test, whatever
\* was logged or failed before; nothing logged earlier is changed or logged again; and
\* a callback whose call of the logger fails ends by throwing.
C18_NoBuffering ==
    /\ [](lastEvent.cb # "none" =>
            /\ (lastEvent.cb = "onTestBegin" =>
                    /\ Len(NewLogs) = 1
                    /\ NewLogs[1].level = "info" /\ NewLogs[1].kind = "starting"
                    /\ NewLogs[1].test = lastEvent.test)
            /\ (lastEvent.cb = "onError" =>
                    /\ Len(NewLogs) = 1
                    /\ NewLogs[1].level = "error" /\ NewLogs[1].kind = "message")
            /\ (lastEvent.cb = "onTestEnd" =>
                    /\ Len(NewLogs) <= 1
                    /\ \A i \in 1..Len(NewLogs) : NewLogs[i].test = lastEvent.test)
            /\ (lastEvent.outcome = "thrown" <=> (NewLogs # <<>> /\ ~lastEvent.sinkOk)))
    /\ [][SubSeq(log', 1, Len(log)) = log /\ lastLen' = Len(log)]_vars

C18_Witness ==
    /\ lastEvent.cb = "onError" /\ ~lastEvent.sinkOk /\ lastEvent.outcome = "thrown"
    /\ Len(NewLogs) = 1 /\ lastLen > 1

----------------------------------------------------------------------------
(* Claims about test ids, lists of locators and frames *)

InFrameResolved == lastCall.fn = "getLocatorInFrame"

\* C21 as stated: getLocatorInFrame fails with a NotFound error at resolution time when
\* the frame selector locates no frame.
C21_AsStated ==
    InFrameResolved /\ lastCall.frame \notin frames => lastCall.outcome = "NotFound"

\* C21 amended: getLocatorInFrame never fails at resolution time: it returns a handle
\* for the inner query in the frame whether or not the frame selector locates a frame;
\* the missing frame shows only when an action is performed on the handle, which then
\* fails with the timeout error of the action.
C21_Amended ==
    /\ (InFrameResolved =>
            /\ lastCall.outcome = "returned"
            /\ heldLoc = [frame |-> lastCall.frame, query |-> lastCall.query])
    /\ (lastCall.fn = "click" /\ lastCall.frame \notin frames =>
            lastCall.outcome = "TimeoutError")
    /\ lastCall.outcome # "NotFound"

C21_Witness ==
    /\ lastCall.fn = "click"
    /\ heldLoc # NoLoc /\ heldLoc.frame \notin frames
    /\ lastCall.frame = heldLoc.frame
    /\ lastCall.outcome = "TimeoutError"

\* C22: getAllLocators returns without an error one handle for every element the
\* query matches: as many handles as matches, the k-th handle standing for the k-th
\* match in document order, and the empty sequence when nothing matches.
C22_AllInDocumentOrder ==
    lastCall.fn = "getAllLocators" =>
        LET hs == lastCall.handles
            matches == {i \in 1..Len(doc) : doc[i] = lastCall.query}
        IN /\ lastCall.outcome = "returned"
           /\ Len(hs) = Cardinality(matches)
           /\ {NodeOf(hs[k], doc) : k \in 1..Len(hs)} = matches
           /\ \A k, l \in 1..Len(hs) : k < l => NodeOf(hs[k], doc) < NodeOf(hs[l], doc)
           /\ (matches = {} => hs = <<>>)

C22_Witness ==
    /\ lastCall.fn = "getAllLocators" /\ lastCall.outcome = "returned"
    /\ Len(lastCall.handles) = 2 /\ Len(doc) = 3
    /\ NodeOf(lastCall.handles[1], doc) = 1
    /\ NodeOf(lastCall.handles[2], doc) = 3

\* a state in which getAllLocators returned for a query that matches nothing
C22_EmptyWitness ==
    /\ lastCall.fn = "getAllLocators" /\ lastCall.outcome = "returned"
    /\ doc # <<>> /\ lastCall.handles = <<>>

ByTestIdCalled == lastCall.fn = "getLocatorByTestId"

\* C27 as stated: once a call of getLocatorByTestId has passed an attributeName, every
\* later call resolves test ids by the attributeName passed last, and a call without
\* attributeName leaves the attribute as it is.
C27_AsStated ==
    ByTestIdCalled /\ lastSet # "none" => lastCall.by = lastSet /\ testIdAttribute = lastSet

\* C27 amended: the override lasts until the end of the test in which it was made:
\* a call of getLocatorByTestId resolves test ids by the non-empty attributeName passed
\* last in the same test, whether by that call or an earlier one, and by the configured
\* 'data-testid' when no call of the test has passed one yet, since the runner applies
\* the configured attribute when it sets up every test; a call without attributeName,
\* or with the empty string, leaves the attribute as it is.
C27_Amended ==
    LET inForce == IF lastSet # "none" /\ lastSetTest = lTest THEN lastSet
                   ELSE TestIdAttributeConfigured
    IN /\ testIdAttribute = inForce
       /\ (ByTestIdCalled => lastCall.by = inForce)

C27_Witness ==
    /\ ByTestIdCalled /\ lastCall.attr = {}
    /\ lTest = 2 /\ lastSetTest = 2
    /\ lastSet = "data-qa" /\ lastCall.by = "data-qa"
    /\ lCalls = 3

----------------------------------------------------------------------------
(* Claims about isElementChecked and the timeout overrides *)

CheckedDone == fn = "isElementChecked" /\ pc = "done"

C26_NeverVisibleWitness ==
    /\ CheckedDone /\ result = "false" /\ ~threw
    /\ condAt = Never /\ checkedAt = 0 /\ queries = samples /\ samples >= 2

\* the budget of a call whose options are opt, when 0 counts as absent
BudgetOf(opt, dflt) == IF opt = {} \/ opt = {0} THEN dflt ELSE CHOOSE t \in opt : TRUE

\* isElementVisible, isElementHidden, isElementAttached and getLocatorCount called
\* with timeout 0 or none run with SMALL_TIMEOUT (getLocatorCount: INSTANT_TIMEOUT), and
\* with the timeout given when it is positive: a loop whose timeout is 0 still samples,
\* and gives up only when the default has elapsed
ElementBudgets ==
    /\ (fn \in PollFns \cup {"isElementAttached"} /\ pc \notin {"idle", "off"} =>
            timeoutInMs = BudgetOf(options, SMALL_TIMEOUT))
    /\ (fn = "getLocatorCount" /\ pc \notin {"idle", "off"} =>
            timeoutInMs = BudgetOf(options, INSTANT_TIMEOUT))
    /\ (fn \in PollFns /\ pc = "done" /\ ~threw /\ result = "false" =>
            samples >= 1 /\ Elapsed >= BudgetOf(options, SMALL_TIMEOUT))

\* the waits of clickAndNavigate for the navigation event and for the load state last
\* STANDARD_TIMEOUT when the timeout is 0 or absent and the timeout given otherwise
NavigationBudgets ==
    navOp = "clickAndNavigate" =>
        /\ (navPc = "join" /\ evWait = "pending" =>
                navClock <= BudgetOf(clickOptions, STANDARD_TIMEOUT))
        /\ (navErr = "waitForEvent" =>
                navClock = BudgetOf(clickOptions, STANDARD_TIMEOUT))
        /\ (navPc = "loadState" =>
                navClock <= loadStart + BudgetOf(clickOptions, STANDARD_TIMEOUT))
        /\ (navErr = "waitForLoadState" =>
                navClock = loadStart + BudgetOf(clickOptions, STANDARD_TIMEOUT))

ClickPending == navOp = "clickAndNavigate" /\ navPc = "join" /\ prim = "pending"

\* C25 as stated: a timeout of 0 is never honoured: the four functions of
\* element-utils.ts and clickAndNavigate run with their default budget when the timeout
\* is 0, as when it is absent, and with the timeout given when it is positive; so the
\* click of clickAndNavigate with timeout 0 is pending no longer than with no timeout.
C25_AsStated ==
    /\ ElementBudgets
    /\ NavigationBudgets
    /\ (ClickPending /\ clickOptions \in {{}, {0}} => navClock <= ACTION_TIMEOUT)

\* C25 amended: the four functions of element-utils.ts run with their default budget
\* when the timeout is 0 or absent and with the timeout given when it is positive, and
\* so do the waits of clickAndNavigate for the navigation event and the load state;
\* the click of clickAndNavigate receives the options as they are: with no timeout it
\* is pending for the action timeout of the configuration at most, with a positive
\* timeout for that timeout at most, and with timeout 0 it has no limit.
C25_Amended ==
    /\ ElementBudgets
    /\ NavigationBudgets
    /\ (ClickPending /\ clickOptions = {} => navClock <= ACTION_TIMEOUT)
    /\ (ClickPending /\ clickOptions \notin {{}, {0}} =>
            \A t \in clickOptions : navClock <= t)

\* the click called with timeout 0 is still pending after the action timeout, the
\* navigation event having arrived
C25_Witness ==
    /\ ClickPending /\ clickOptions = {0}
    /\ evWait = "fulfilled"
    /\ navClock > ACTION_TIMEOUT

\* isElementVisible called with timeout 0 has polled for SMALL_TIMEOUT
C25_ZeroPolledWitness ==
    /\ fn = "isElementVisible" /\ options = {0} /\ pc = "done" /\ result = "false"
    /\ samples >= 2 /\ Elapsed >= SMALL_TIMEOUT

----------------------------------------------------------------------------
(* Claims about the load state and the duration of the navigation actions *)

\* the load state C29 says waitForPageLoadState waits for
DefaultUnlessOther ==
    IF navWait \in {"absent", "commit"} THEN "domcontentloaded" ELSE navWait

\* C29: the wait for the load state that ends reloadPage and goBack ends exactly when
\* the document has reached 'domcontentloaded' if waitUntil is absent or 'commit', and
\* the state waitUntil names otherwise: it does not end earlier, so never at 'commit',
\* and it can end as soon as that state is reached.
C29_NeverCommit ==
    navOp \in {"reloadPage", "goBack"} =>
        /\ (navPc = "returned" => lifecycle >= Level(DefaultUnlessOther))
        /\ (navPc = "returned" => lifecycle > Level("commit"))
        /\ (navPc = "loadState" =>
                (ENABLED LoadStateReached <=> lifecycle >= Level(DefaultUnlessOther)))

\* called with waitUntil 'commit', the operation is still waiting although the document
\* is committed
C29_Witness ==
    /\ navOp \in {"reloadPage", "goBack"}
    /\ navWait = "commit"
    /\ navPc = "loadState"
    /\ navEvent = "delivered"
    /\ lifecycle = Level("commit")

\* clickAndNavigate called with a positive timeout
ClickWithTimeout == navOp = "clickAndNavigate" /\ clickOptions \notin {{}, {0}}

\* C30: clickAndNavigate called with timeout T spends at most T in the join of the click
\* and the wait for the navigation event, and then at most T more, counted from the end
\* of the join, in the wait for the load state: it returns or throws within 2 * T, not
\* within T, and when the load state is not reached it throws T after the join ended,
\* although the click was performed and the navigation event arrived within T.
C30_TwoBudgets ==
    ClickWithTimeout =>
        \A T \in clickOptions :
            /\ (navPc = "join" => navClock <= T)
            /\ loadStart <= T
            /\ (navPc = "loadState" => navClock <= loadStart + T)
            /\ (navPc \in {"returned", "thrown"} => navClock <= 2 * T)
            /\ (navErr = "waitForLoadState" =>
                    /\ navClock = loadStart + T
                    /\ prim = "fulfilled" /\ evWait = "fulfilled"
                    /\ navEvent = "delivered")

\* the call has failed 2 * T after it was made, the navigation event having arrived at T
C30_Witness ==
    /\ ClickWithTimeout /\ clickOptions = {2000}
    /\ navPc = "thrown" /\ navErr = "waitForLoadState"
    /\ evWait = "fulfilled" /\ navEvent = "delivered"
    /\ loadStart = 2000 /\ navClock = 4000

----------------------------------------------------------------------------
(* Claims about the test timeout and the expectation timeout *)

\* an expectation was called without options.timeout after some test time had elapsed,
\* and its condition has not held
NeverHeld == expectPc # "none" /\ expectStart > 0 /\ ~condHeld

\* C28 as stated: such an expectation is cut off by the test timeout, the test ends as
\* timed out, and the expectation reports nothing: its timeout does not expire and
\* testInfo.errors gets no entry from it, whether it is hard or soft.
C28_AsStated ==
    NeverHeld =>
        /\ expectPc # "failed"
        /\ (runPc = "ended" => runStatus = "timedOut")
        /\ runErrors \in {<<>>, <<"timeout">>}

\* C28 amended: the timeout of such an expectation would expire after the test timeout,
\* so while the test function runs the expectation stays pending and nothing is
\* recorded; the test timeout comes first, its error is the first entry of
\* testInfo.errors and the status is and stays timedOut. Only then, during the
\* teardown, can the expectation end, and what it then records comes after the timeout
\* error and does not change the status.
C28_Amended ==
    NeverHeld =>
        /\ expectStart + ExpectTimeout > TestTimeout
        /\ (runPc = "running" =>
                expectPc = "pending" /\ runErrors = <<>> /\ runStatus = "passed")
        /\ (runPc # "running" =>
                /\ runStatus = "timedOut"
                /\ runErrors # <<>> /\ Head(runErrors) = "timeout"
                /\ \A i \in 2..Len(runErrors) : runErrors[i] \in {"closed", "expect"})
        /\ (expectPc \in {"failed", "interrupted"} => runPc # "running")

\* a soft expectation was interrupted by the teardown after the test timeout, and its
\* error was appended after the timeout error
C28_Witness ==
    /\ NeverHeld /\ IsSoft(expectSoft)
    /\ runPc = "ended" /\ runStatus = "timedOut"
    /\ expectPc = "interrupted"
    /\ runErrors = <<"timeout", "closed">>

\* a hard expectation of which nothing was recorded after the test timeout
C28_HardSilentWitness ==
    /\ NeverHeld /\ ~IsSoft(expectSoft)
    /\ runPc = "ended" /\ runStatus = "timedOut"
    /\ expectPc = "interrupted"
    /\ runErrors = <<"timeout">>

----------------------------------------------------------------------------
(* Claims about the page object *)

\* the k-th entry of the log is about the step that comes ((k + 1) \div 2)-th in the
\* flow, and about the button of that step
InListedOrder(k) ==
    /\ (k + 1) \div 2 <= Len(StepsOf(pgFlow))
    /\ pgLog[k].step = StepsOf(pgFlow)[(k + 1) \div 2]
    /\ pgLog[k].on = ButtonOf(pgLog[k].step)

\* C23: in every selection step the click is issued only after the hard expectation
\* that the same button is visible has passed; when a statement fails nothing more is
\* done, neither the click of the step nor any later step of the flow, and the flow
\* throws; the steps run in the order in which the flow lists them, each one once, and
\* a flow that returns has run them all.
C23_ClickAfterVisible ==
    pgFlow \in Flows =>
        /\ \A k \in 1..Len(pgLog) :
            /\ pgLog[k].do = "click" =>
                /\ k > 1
                /\ pgLog[k - 1].do = "expect" /\ pgLog[k - 1].ok
                /\ pgLog[k - 1].step = pgLog[k].step /\ pgLog[k - 1].on = pgLog[k].on
            /\ pgLog[k].do = (IF k % 2 = 1 THEN "expect" ELSE "click")
            /\ ~pgLog[k].ok => k = Len(pgLog) /\ pgPc = "thrown"
            /\ InListedOrder(k)
        /\ pgPc = "thrown" => pgLog # <<>> /\ ~pgLog[Len(pgLog)].ok
        /\ pgPc = "returned" => Len(pgLog) = 2 * Len(StepsOf(pgFlow))

\* the DVD flow has stopped at the expectation of its third step, after two complete
\* steps, without the click of the third step and without the fourth step
C23_Witness ==
    /\ pgFlow = "generateSearchHistoryWithDvd" /\ pgPc = "thrown"
    /\ Len(pgLog) = 5
    /\ pgLog[4] = [step |-> "selectSubCategoryDvd", do |-> "click", on |-> "btn_dvdCategory",
                   ok |-> TRUE]
    /\ pgLog[5] = [step |-> "selectDVD", do |-> "expect", on |-> "btn_dvdSubCategory",
                   ok |-> FALSE]

\* the books flow has run its four steps and returned
C23_CompleteWitness ==
    /\ pgFlow = "generateSearchHistoryWithBooksIt" /\ pgPc = "returned"
    /\ Len(pgLog) = 8
    /\ pgLog[8].step = "selectItCategory" /\ pgLog[8].do = "click"

\* the positions of the labels whose checkbox is checked
CheckedAt == {i \in 1..Len(labels) : labels[i].input = "checked"}

\* C24: checkCheckboxes(expected) passes exactly when there are as many checked
\* checkboxes as expected texts and the trimmed text of the label of the k-th checked
\* checkbox, in document order, is the k-th expected text; a label without an input is
\* not among the checked ones.
C24_ChecksCheckedTexts ==
    (pgFlow = "checkCheckboxes" /\ checkResult # "none") =>
        (checkResult = "pass" <=>
            /\ Cardinality(CheckedAt) = Len(expectedCheckedTexts)
            /\ \A i \in CheckedAt :
                Trim(labels[i].innerText) =
                    expectedCheckedTexts[Cardinality({j \in CheckedAt : j <= i})])

\* the call has passed on a page with a label without an input and a checked checkbox
\* whose label text has blanks around it
C24_Witness ==
    /\ pgFlow = "checkCheckboxes" /\ checkResult = "pass" /\ pgPc = "returned"
    /\ labels = << [innerText |-> <<"b">>, input |-> "none"],
                   [innerText |-> <<" ", "a", " ">>, input |-> "checked"] >>
    /\ expectedCheckedTexts = <<<<"a">>>>

\* the call has failed because the checked texts come in another order than expected
C24_OrderWitness ==
    /\ pgFlow = "checkCheckboxes" /\ checkResult = "fail" /\ pgPc = "thrown"
    /\ labels = << [innerText |-> <<"b">>, input |-> "checked"],
                   [innerText |-> <<"a">>, input |-> "checked"] >>
    /\ expectedCheckedTexts = <<<<"a">>, <<"b">>>>

====
